---- MODULE Spec2Model ----
(***************************************************************************)
(* Model of the IR mutation engine of gtirb-rewriting                      *)
(* (src/gtirb_rewriting/utils.py): _modify_block_insert splices an         *)
(* assembled fragment into a code block of a byte interval and repairs the *)
(* block sizes, the CFG, the symbols, the symbolic expressions and the     *)
(* offset-keyed aux data tables.                                           *)
(*                                                                         *)
(* A behaviour of Spec is one call of _modify_block_insert on a module     *)
(* drawn by Init.  The module holds one byte interval "bi" with the code   *)
(* blocks "B" (the block that is spliced into) and "C" (any other block of *)
(* the interval, anywhere in it), and a node "X" outside the interval.     *)
(*                                                                         *)
(* A behaviour of SpecMapping is one operation on an OffsetMapping         *)
(* (utils.py), and a behaviour of SpecApply is the registration of         *)
(* insertions and function insertions on a RewritingContext                *)
(* (src/gtirb_rewriting/rewriting.py) followed by up to MaxApplies calls   *)
(* of RewritingContext.apply, each taken in steps.                         *)
(***************************************************************************)
EXTENDS Integers, Sequences, FiniteSets, TLC

VARIABLES
    bi_size,                  \* bi.size
    bi_contents,              \* bi.contents, a sequence of bytes
    bi_blocks,                \* bi.blocks: block id -> [offset, size]
    bi_symbolic_expressions,  \* bi.symbolic_expressions: offset -> expression
    cfg,                      \* bi.ir.cfg: set of [source, target, label]
    symbols,                  \* bi.module.symbols: name -> referent
    aux_data,                 \* bi.module.aux_data: table name -> table
    pc,                       \* "ready", "returned" or the exception raised
    args,                     \* arguments of the call (history)
    old,                      \* the module before the call (history)
    mapping,                  \* an OffsetMapping: its _data
    ctx,                      \* the RewritingContext: _functions, _insertions,
                              \* _function_insertions, _patch_id
    text_section,             \* the byte intervals added to the text section
    function_tables,          \* functionEntries, functionBlocks, functionNames
    work                      \* where apply() is in its loops, and what it did

vars == <<bi_size, bi_contents, bi_blocks, bi_symbolic_expressions, cfg,
          symbols, aux_data, pc, args, old, mapping, ctx, text_section,
          function_tables, work>>

\* ------------------------------------------------------------ bounds
BlockSize == 3       \* size of the block that is spliced into
MaxFragLen == 2      \* largest len(new_bytes)

\* size of the byte interval before the call: a byte before "B" and one after
BiSize == BlockSize + 2

\* ------------------------------------------------------------ helpers
\* edge labels: Fallthrough, and Branch for a label of any other type
Fallthrough == "Fallthrough"
Branch == "Branch"

Edge(s, t, l) == [source |-> s, target |-> t, label |-> l]

\* cfg.out_edges(n), cfg.in_edges(n)
out_edges(g, n) == {e \in g : e.source = n}
in_edges(g, n) == {e \in g : e.target = n}

Last(s) == s[Len(s)]
Front(s) == SubSeq(s, 1, Len(s) - 1)
Tail1(s) == SubSeq(s, 2, Len(s))
Range(s) == {s[i] : i \in 1..Len(s)}

\* a Python dict as a function; d1 updated with d2
DictUpdate(d1, d2) ==
    [k \in DOMAIN d1 \cup DOMAIN d2 |-> IF k \in DOMAIN d2 THEN d2[k] ELSE d1[k]]

EmptyDict == [k \in {} |-> 0]

\* ------------------------------------------------------------ OffsetMapping
\* An OffsetMapping is its _data: element -> (displacement -> value).  A plain
\* table keyed by Offset is a function on pairs <<element, displacement>>.

\* OffsetMapping.__setitem__ with an Offset key
OffsetMapping_setitem_offset(data, elem, disp, value) ==
    LET sub == IF elem \in DOMAIN data THEN data[elem] ELSE EmptyDict
    IN  DictUpdate(data, [e \in {elem} |-> DictUpdate(sub, [d \in {disp} |-> value])])

\* OffsetMapping.__setitem__ with an element key that stores the value as the
\* submap of the element
OffsetMapping_setitem_element_replaces(data, elem, value) ==
    DictUpdate(data, [e \in {elem} |-> value])

\* OffsetMapping.__setitem__ with an element key:
\* self._data.setdefault(key, {}).update(value)
OffsetMapping_setitem_element(data, elem, value) ==
    LET sub == IF elem \in DOMAIN data THEN data[elem] ELSE EmptyDict
    IN  DictUpdate(data, [e \in {elem} |-> DictUpdate(sub, value)])

\* OffsetMapping.__delitem__ with an element key: del self._data[key]
OffsetMapping_delitem_element(data, elem) ==
    [e \in DOMAIN data \ {elem} |-> data[e]]

\* OffsetMapping.__getitem__ with an element key: self._data[key]
OffsetMapping_getitem_element(data, elem) == data[elem]

\* key in mapping, for an element key (Mapping.__contains__ tries __getitem__)
OffsetMapping_contains(data, elem) == elem \in DOMAIN data

\* OffsetMapping.__init__(plain): self._data = {}; self.update(plain), which
\* stores every Offset key (elem, disp) of the dict under elem and disp
OffsetMapping_init(plain) ==
    [e \in {k[1] : k \in DOMAIN plain} |->
        [d \in {k[2] : k \in {x \in DOMAIN plain : x[1] = e}} |-> plain[<<e, d>>]]]

\* OffsetMapping.__iter__ / items(): the Offsets stored, with their values
OffsetMapping_items(data) ==
    UNION {{<<e, d, data[e][d]>> : d \in DOMAIN data[e]} : e \in DOMAIN data}

\* ------------------------------------------------------------ CFG helpers
\* _is_fallthrough_edge
_is_fallthrough_edge(edge) == edge.label = Fallthrough

\* _substitute_block without the loop over the symbols
_substitute_block_keeps_symbols(old_block, new_block, g, syms) ==
    LET ins == in_edges(g, old_block)
        g1 == (g \ ins) \cup {[e EXCEPT !.target = new_block] : e \in ins}
        outs == out_edges(g1, old_block)
        g2 == (g1 \ outs) \cup {[e EXCEPT !.source = new_block] : e \in outs}
    IN  [cfg |-> g2, symbols |-> syms]

\* _substitute_block(old_block, new_block, cfg, symbols): the new cfg and symbols
_substitute_block(old_block, new_block, g, syms) ==
    LET ins == in_edges(g, old_block)
        g1 == (g \ ins) \cup {[e EXCEPT !.target = new_block] : e \in ins}
        outs == out_edges(g1, old_block)
        g2 == (g1 \ outs) \cup {[e EXCEPT !.source = new_block] : e \in outs}
    IN  [cfg |-> g2,
         symbols |-> [n \in DOMAIN syms |->
                         IF syms[n] = old_block THEN new_block ELSE syms[n]]]

\* ------------------------------------------------------------ _modify_block_insert_cfg
\* The values _modify_block_insert_cfg works on: the module CFG, block.size and
\* the fragment's blocks (a sequence of [id, offset, size]), CFG and symbols.
\* raised is TRUE when NotImplementedError (UnresolvedZeroBlock) is raised.

inserts_at_end(block_size, offset, replacement_length) ==
    replacement_length = 0 /\ offset = block_size

replaces_last_instruction(block_size, offset, replacement_length) ==
    replacement_length # 0 /\ offset + replacement_length = block_size

\* the condition of the trivial case
is_trivial(block_size, offset, replacement_length, new_cfg, new_symbols) ==
    /\ Cardinality(new_cfg) = 0
    /\ DOMAIN new_symbols = {}
    /\ ~inserts_at_end(block_size, offset, replacement_length)
    /\ ~replaces_last_instruction(block_size, offset, replacement_length)

\* trivial_case without new_blocks.clear()
trivial_case_keeps_blocks(st, offset, replacement_length, new_bytes) ==
    [st EXCEPT !.block_size = st.block_size - replacement_length + Len(new_bytes)]

\* the trivial case: the block grows, the fragment's blocks are dropped
trivial_case(st, offset, replacement_length, new_bytes) ==
    [st EXCEPT !.block_size = st.block_size - replacement_length + Len(new_bytes),
               !.new_blocks = <<>>]

\* block.size = offset; the last patch block takes the rest of the block
resize_blocks(st, offset, replacement_length, original_size) ==
    LET n == Len(st.new_blocks)
    IN  [st EXCEPT !.block_size = offset,
                   !.new_blocks[n].size = @ + original_size - offset - replacement_length]

\* add_fallthrough that adds the edge also after a block that does not fall
\* through
add_fallthrough_always(st, block, at_end) ==
    [st EXCEPT !.new_cfg = @ \cup {Edge(block, st.new_blocks[1].id, Fallthrough)}]

\* the fall-through edge from the block to the first patch block
add_fallthrough(st, block, at_end) ==
    IF ~at_end \/ \E edge \in out_edges(st.ir_cfg, block) : _is_fallthrough_edge(edge)
    THEN [st EXCEPT !.new_cfg = @ \cup {Edge(block, st.new_blocks[1].id, Fallthrough)}]
    ELSE st

\* redirect_edges that moves only the fall-through edges in every case and
\* discards the other edges unless the insertion is at the end
redirect_edges_fallthrough_only(st, block, at_end, replaces_last) ==
    LET outs == out_edges(st.ir_cfg, block)
        last == Last(st.new_blocks).id
        moved == {e \in outs : _is_fallthrough_edge(e)}
        discarded == IF at_end THEN moved ELSE outs
    IN  [st EXCEPT !.ir_cfg = @ \ discarded,
                   !.new_cfg = @ \cup {[e EXCEPT !.source = last] : e \in moved}]

\* redirect_edges that moves every outgoing edge when the last instruction
\* is replaced
redirect_edges_moves_all(st, block, at_end, replaces_last) ==
    LET outs == out_edges(st.ir_cfg, block)
        last == Last(st.new_blocks).id
        moved == IF at_end THEN {e \in outs : _is_fallthrough_edge(e)} ELSE outs
    IN  [st EXCEPT !.ir_cfg = @ \ moved,
                   !.new_cfg = @ \cup {[e EXCEPT !.source = last] : e \in moved}]

\* the outgoing edges of the block move to the last patch block
redirect_edges(st, block, at_end, replaces_last) ==
    LET outs == out_edges(st.ir_cfg, block)
        last == Last(st.new_blocks).id
        moved == IF at_end \/ replaces_last
                 THEN {e \in outs : _is_fallthrough_edge(e)}
                 ELSE outs
        discarded == IF at_end THEN moved ELSE outs
    IN  [st EXCEPT !.ir_cfg = @ \ discarded,
                   !.new_cfg = @ \cup {[e EXCEPT !.source = last] : e \in moved}]

\* the block was left empty (offset = 0): it takes the place of the first
\* patch block
repair_head(st, block) ==
    IF st.block_size # 0 THEN st
    ELSE LET first == st.new_blocks[1]
             added_fallthrough ==
                 CHOOSE edge \in in_edges(st.new_cfg, first.id) :
                     _is_fallthrough_edge(edge) /\ edge.source = block
             sub == _substitute_block(first.id, block,
                                      st.new_cfg \ {added_fallthrough},
                                      st.new_symbols)
         IN  [st EXCEPT !.block_size = first.size,
                        !.new_cfg = sub.cfg,
                        !.new_symbols = sub.symbols,
                        !.new_blocks = Tail1(@)]

\* repair_tail without the repair: an empty last patch block is kept
repair_tail_keeps_empty(st) == st

\* repair_tail that does not look at the symbols: an empty last patch block
\* that only a symbol refers to is dropped
repair_tail_ignores_symbols(st) ==
    IF st.new_blocks = <<>> \/ Last(st.new_blocks).size # 0 THEN st
    ELSE LET last == Last(st.new_blocks).id
             has_incoming_edges == in_edges(st.new_cfg, last) # {}
             fallthrough_edges ==
                 {e \in out_edges(st.new_cfg, last) : _is_fallthrough_edge(e)}
         IN  IF ~has_incoming_edges
             THEN [st EXCEPT !.new_cfg = @ \ out_edges(st.new_cfg, last),
                             !.new_blocks = Front(@)]
             ELSE IF Cardinality(fallthrough_edges) = 1
             THEN LET ft == CHOOSE e \in fallthrough_edges : TRUE
                      sub == _substitute_block(last, ft.target, st.new_cfg,
                                               st.new_symbols)
                  IN  [st EXCEPT !.new_cfg = sub.cfg,
                                 !.new_symbols = sub.symbols,
                                 !.new_blocks = Front(@)]
             ELSE [st EXCEPT !.raised = TRUE]

\* the last patch block is empty: drop it, replace it by its fall-through
\* target, or raise
repair_tail(st) ==
    IF st.new_blocks = <<>> \/ Last(st.new_blocks).size # 0 THEN st
    ELSE LET last == Last(st.new_blocks).id
             has_symbols == \E n \in DOMAIN st.new_symbols : st.new_symbols[n] = last
             has_incoming_edges == in_edges(st.new_cfg, last) # {}
             fallthrough_edges ==
                 {e \in out_edges(st.new_cfg, last) : _is_fallthrough_edge(e)}
         IN  IF ~has_symbols /\ ~has_incoming_edges
             THEN [st EXCEPT !.new_cfg = @ \ out_edges(st.new_cfg, last),
                             !.new_blocks = Front(@)]
             ELSE IF Cardinality(fallthrough_edges) = 1
             THEN LET ft == CHOOSE e \in fallthrough_edges : TRUE
                      sub == _substitute_block(last, ft.target, st.new_cfg,
                                               st.new_symbols)
                  IN  [st EXCEPT !.new_cfg = sub.cfg,
                                 !.new_symbols = sub.symbols,
                                 !.new_blocks = Front(@)]
             ELSE [st EXCEPT !.raised = TRUE]

_modify_block_insert_cfg(ir_cfg, block, block_size, offset, replacement_length, new_bytes, new_blocks, new_cfg, new_symbols) ==
    LET st0 == [ir_cfg |-> ir_cfg, block_size |-> block_size,
                new_blocks |-> new_blocks, new_cfg |-> new_cfg,
                new_symbols |-> new_symbols, raised |-> FALSE]
        at_end == inserts_at_end(block_size, offset, replacement_length)
        replaces_last == replaces_last_instruction(block_size, offset, replacement_length)
    IN  IF is_trivial(block_size, offset, replacement_length, new_cfg, new_symbols)
        THEN trivial_case(st0, offset, replacement_length, new_bytes)
        ELSE repair_tail(
                 repair_head(
                     redirect_edges(
                         add_fallthrough(
                             resize_blocks(st0, offset, replacement_length, block_size),
                             block, at_end),
                         block, at_end, replaces_last),
                     block))

\* ------------------------------------------------------------ _modify_block_insert
\* shift_symbolic_expressions without the filter on the replaced range
shift_symbolic_expressions_keeps_replaced(d, offset, replacement_length, size_delta) ==
    LET key(k) == IF k >= offset THEN k + size_delta ELSE k
    IN  [j \in {key(k) : k \in DOMAIN d} |-> d[CHOOSE k \in DOMAIN d : key(k) = j]]

\* the dict comprehension that moves the symbolic expressions
\* {(k + size_delta if k >= offset else k): v for k, v in ... if k < offset
\*  or k >= offset + replacement_length}
shift_symbolic_expressions(d, offset, replacement_length, size_delta) ==
    LET kept == {k \in DOMAIN d : k < offset \/ k >= offset + replacement_length}
        key(k) == IF k >= offset THEN k + size_delta ELSE k
    IN  [j \in {key(k) : k \in kept} |-> d[CHOOSE k \in kept : key(k) = j]]

\* the same comprehension over the displacement map of an aux data table
shift_displacement_map(d, offset, replacement_length, size_delta) ==
    LET kept == {k \in DOMAIN d : k < offset \/ k >= offset + replacement_length}
        key(k) == IF k >= offset THEN k + size_delta ELSE k
    IN  [j \in {key(k) : k \in kept} |-> d[CHOOSE k \in kept : key(k) = j]]

\* splice_contents that keeps the replaced bytes
splice_contents_keeps_replaced(contents, offset, replacement_length, new_bytes) ==
    SubSeq(contents, 1, offset) \o new_bytes \o SubSeq(contents, offset + 1, Len(contents))

\* bi.contents[:offset] + new_bytes + bi.contents[offset + replacement_length:]
splice_contents(contents, offset, replacement_length, new_bytes) ==
    SubSeq(contents, 1, offset) \o new_bytes
        \o SubSeq(contents, offset + replacement_length + 1, Len(contents))

\* shift_blocks that leaves a block starting at the insertion point in place
shift_blocks_strictly_after(blocks, block, offset, size_delta) ==
    [b \in DOMAIN blocks |->
        IF b # block /\ blocks[b].offset > offset
        THEN [blocks[b] EXCEPT !.offset = @ + size_delta]
        ELSE blocks[b]]

\* for b in bi.blocks: if b != block and b.offset >= offset: b.offset += size_delta
shift_blocks(blocks, block, offset, size_delta) ==
    [b \in DOMAIN blocks |->
        IF b # block /\ blocks[b].offset >= offset
        THEN [blocks[b] EXCEPT !.offset = @ + size_delta]
        ELSE blocks[b]]

\* for b in new_blocks: b.offset += offset
place_new_blocks(new_blocks, offset) ==
    [i \in 1..Len(new_blocks) |-> [new_blocks[i] EXCEPT !.offset = @ + offset]]

\* bi.blocks.update(new_blocks)
add_new_blocks(blocks, new_blocks) ==
    DictUpdate(blocks,
               [id \in {new_blocks[i].id : i \in 1..Len(new_blocks)} |->
                   LET b == CHOOSE x \in Range(new_blocks) : x.id = id
                   IN  [offset |-> b.offset, size |-> b.size]])

\* update_aux_data_keyed_by_offset without del table.data[bi]: the new
\* displacement map is merged into the old one
update_aux_data_merges(table, elem, offset, replacement_length, size_delta) ==
    LET data == IF table.is_offset_mapping THEN table.data
                ELSE OffsetMapping_init(table.data)
    IN  [is_offset_mapping |-> TRUE,
         data |->
            IF OffsetMapping_contains(data, elem)
            THEN OffsetMapping_setitem_element(
                     data, elem,
                     shift_displacement_map(OffsetMapping_getitem_element(data, elem),
                                            offset, replacement_length, size_delta))
            ELSE data]

\* update_aux_data_keyed_by_offset(name), on the table (tables that are absent
\* are not in DOMAIN aux_data)
update_aux_data_keyed_by_offset(table, elem, offset, replacement_length, size_delta) ==
    LET data == IF table.is_offset_mapping THEN table.data
                ELSE OffsetMapping_init(table.data)
    IN  [is_offset_mapping |-> TRUE,
         data |->
            IF OffsetMapping_contains(data, elem)
            THEN LET displacement_map == OffsetMapping_getitem_element(data, elem)
                 IN  OffsetMapping_setitem_element(
                         OffsetMapping_delitem_element(data, elem), elem,
                         shift_displacement_map(displacement_map, offset,
                                                replacement_length, size_delta))
            ELSE data]

\* the assertions on the arguments at the top of _modify_block_insert
Precondition(m, block, offset, replacement_length, frag) ==
    /\ block \in DOMAIN m.bi_blocks
    /\ m.bi_blocks[block].size # 0
    /\ 0 <= offset /\ offset <= m.bi_blocks[block].size
    /\ 0 <= offset + replacement_length
    /\ offset + replacement_length <= m.bi_blocks[block].size
    /\ replacement_length >= 0
    /\ frag.bytes # <<>>
    /\ frag.blocks # <<>>
    /\ \A i \in 1..Len(frag.blocks) : frag.blocks[i].id # block
    /\ frag.blocks[1].size # 0
    /\ \A i \in 1..(Len(frag.blocks) - 1) : frag.blocks[i].size # 0
    /\ out_edges(frag.cfg, Last(frag.blocks).id) = {}

\* _modify_block_insert(block, offset, replacement_length, new_bytes, new_blocks,
\* new_cfg, new_symbolic_expressions, new_symbols) on the module m: the module
\* afterwards and how the call ended
_modify_block_insert(m, block, offset, replacement_length, frag) ==
    LET st == _modify_block_insert_cfg(m.cfg, block, m.bi_blocks[block].size,
                                       offset, replacement_length, frag.bytes,
                                       frag.blocks, frag.cfg, frag.symbols)
        resized == [m.bi_blocks EXCEPT ![block].size = st.block_size]
        size_delta == Len(frag.bytes) - replacement_length
        at == offset + m.bi_blocks[block].offset
        shifted == shift_blocks(resized, block, at, size_delta)
        new_blocks == place_new_blocks(st.new_blocks, at)
        moved == [m EXCEPT
                    !.cfg = st.ir_cfg,
                    !.bi_size = @ + size_delta,
                    !.bi_contents = splice_contents(@, at, replacement_length, frag.bytes),
                    !.bi_blocks = shifted]
        shifted_exprs == shift_symbolic_expressions(m.bi_symbolic_expressions, at,
                                                    replacement_length, size_delta)
    IN  IF st.raised
        THEN [pc |-> "NotImplementedError",
              m |-> [m EXCEPT !.cfg = st.ir_cfg, !.bi_blocks = resized]]
        ELSE IF st.block_size = 0 \/ \E i \in 1..Len(new_blocks) : new_blocks[i].size = 0
        THEN [pc |-> "AssertionError", m |-> moved]
        ELSE [pc |-> "returned",
              m |-> [moved EXCEPT
                  !.bi_blocks = add_new_blocks(shifted, new_blocks),
                  !.bi_symbolic_expressions =
                      DictUpdate(shifted_exprs,
                                 [k \in {at + rel : rel \in DOMAIN frag.symbolic_expressions}
                                     |-> frag.symbolic_expressions[k - at]]),
                  !.cfg = st.ir_cfg \cup st.new_cfg,
                  !.symbols = DictUpdate(@, st.new_symbols),
                  !.aux_data = [name \in DOMAIN m.aux_data |->
                      update_aux_data_keyed_by_offset(m.aux_data[name], "bi", at,
                                                      replacement_length, size_delta)]]]

\* ------------------------------------------------------------ the module and the inputs
TableNames == {"comments", "padding", "symbolicExpressionSizes"}

\* the module as one record
Module == [bi_size |-> bi_size, bi_contents |-> bi_contents, bi_blocks |-> bi_blocks,
           bi_symbolic_expressions |-> bi_symbolic_expressions, cfg |-> cfg,
           symbols |-> symbols, aux_data |-> aux_data]

\* Block "B" at offset 1 of the interval, block "C" anywhere in the interval
\* (before "B", after it, or overlapping it), of size 1 or of the size of "B".
InitBlocks ==
    {[b \in {"B", "C"} |->
        IF b = "B" THEN [offset |-> 1, size |-> BlockSize]
                   ELSE [offset |-> c[1], size |-> c[2]]] :
     c \in {x \in (0..(BiSize - 1)) \X {1, BlockSize} : x[1] + x[2] <= BiSize}}

\* "B" always has an incoming edge; its outgoing edges are any of: a
\* fall-through edge to "C", a fall-through edge to "X", a branch edge to "X".
InitCfgs ==
    {{Edge("X", "B", Branch)} \cup es :
        es \in SUBSET {Edge("B", "C", Fallthrough), Edge("B", "X", Fallthrough),
                       Edge("B", "X", Branch)}}

\* Entries of an offset-keyed table: one at every displacement of "bi" and of
\* another element; the value names the element and the displacement it was
\* stored at.
PlainEntries(elems) ==
    [k \in {<<e, d>> : e \in elems, d \in 0..(BiSize - 1)} |-> k]

PlainTable(elems) == [is_offset_mapping |-> FALSE, data |-> PlainEntries(elems)]
MappingTable(elems) ==
    [is_offset_mapping |-> TRUE, data |-> OffsetMapping_init(PlainEntries(elems))]

\* Which tables exist and in which form: a plain Offset-keyed dict, an
\* OffsetMapping, an OffsetMapping without entries for "bi", or absent.
InitAux ==
    {[name \in {"comments", "padding"} |->
        IF name = "comments" THEN PlainTable({"bi", "other"})
                             ELSE MappingTable({"bi", "other"})],
     [name \in {"padding", "symbolicExpressionSizes"} |->
        IF name = "padding" THEN PlainTable({"bi", "other"})
                            ELSE MappingTable({"other"})]}

\* The fragments: new_bytes of length 1..MaxFragLen in one block, in two
\* blocks, or in one block followed by an empty block; the first block may
\* fall through or branch; a symbol may be defined on either block; every
\* byte may carry a symbolic expression.
NewBlockId == <<"n1", "n2">>

FragmentSizes(len) ==
    {<<len>>, <<len, 0>>} \cup {<<a, len - a>> : a \in 1..(len - 1)}

FragmentBlocks(sizes) ==
    [i \in 1..Len(sizes) |->
        [id |-> NewBlockId[i],
         offset |-> IF i = 1 THEN 0 ELSE sizes[1],
         size |-> sizes[i]]]

FragmentCfgs(sizes) ==
    IF Len(sizes) = 1 THEN {{}}
    ELSE SUBSET {Edge("n1", "n2", Fallthrough), Edge("n1", "X", Branch)}

FragmentSymbols(sizes) ==
    {EmptyDict} \cup {[n \in {"new_sym"} |-> NewBlockId[i]] : i \in 1..Len(sizes)}

FragmentExprs(len) ==
    {[rel \in 0..(len - 1) |-> <<"new", rel>>]}

Fragments ==
    UNION {UNION {
        {[bytes |-> [j \in 1..len |-> 90 + j],
          blocks |-> FragmentBlocks(sizes),
          cfg |-> g,
          symbolic_expressions |-> x,
          symbols |-> y] :
            g \in FragmentCfgs(sizes), y \in FragmentSymbols(sizes),
            x \in FragmentExprs(len)} :
        sizes \in FragmentSizes(len)} : len \in 1..MaxFragLen}

NoArgs == [block |-> "none"]

\* no OffsetMapping, no RewritingContext
NoMapping == EmptyDict
NoContext == [_functions |-> <<>>, _insertions |-> <<>>,
              _function_insertions |-> <<>>, _patch_id |-> 0]
NoWork == [log |-> <<>>]

\* ------------------------------------------------------------ the state machine
Init ==
    /\ bi_size = BiSize
    /\ bi_contents = [i \in 1..BiSize |-> i]
    /\ bi_blocks \in InitBlocks
    /\ bi_symbolic_expressions = [k \in 0..(BiSize - 1) |-> <<"old", k>>]
    /\ cfg \in InitCfgs
    /\ symbols = [n \in {"symB", "symC"} |-> IF n = "symB" THEN "B" ELSE "C"]
    /\ aux_data \in InitAux
    /\ pc = "ready"
    /\ args = NoArgs
    /\ old = Module
    /\ mapping = NoMapping
    /\ ctx = NoContext
    /\ text_section = EmptyDict
    /\ function_tables = EmptyDict
    /\ work = NoWork

\* one call of _modify_block_insert on block "B"
Splice ==
    /\ pc = "ready"
    /\ \E offset \in 0..BlockSize, replacement_length \in 0..BlockSize,
          frag \in Fragments :
        /\ Precondition(Module, "B", offset, replacement_length, frag)
        /\ LET r == _modify_block_insert(Module, "B", offset, replacement_length, frag)
           IN  /\ pc' = r.pc
               /\ bi_size' = r.m.bi_size
               /\ bi_contents' = r.m.bi_contents
               /\ bi_blocks' = r.m.bi_blocks
               /\ bi_symbolic_expressions' = r.m.bi_symbolic_expressions
               /\ cfg' = r.m.cfg
               /\ symbols' = r.m.symbols
               /\ aux_data' = r.m.aux_data
               /\ args' = [block |-> "B", offset |-> offset,
                           replacement_length |-> replacement_length,
                           fragment |-> frag]
               /\ old' = Module
    /\ UNCHANGED <<mapping, ctx, text_section, function_tables, work>>

Next == Splice

Spec == Init /\ [][Next]_vars

\* ------------------------------------------------------------ one operation on an OffsetMapping
MaxDisp == 1         \* largest displacement stored in an OffsetMapping

Elements == {"e1", "e2"}
Displacements == 0..MaxDisp

RECURSIVE SumLen(_, _)
\* sum(len(subdata) for subdata in self._data.values()), over the elements es
SumLen(data, es) ==
    IF es = {} THEN 0
    ELSE LET e == CHOOSE x \in es : TRUE
         IN  Cardinality(DOMAIN data[e]) + SumLen(data, es \ {e})

\* OffsetMapping.__len__
OffsetMapping_len(data) == SumLen(data, DOMAIN data)

\* OffsetMapping.__delitem__ with an Offset key; raised is TRUE for KeyError
OffsetMapping_delitem_offset(data, elem, disp) ==
    IF elem \notin DOMAIN data \/ disp \notin DOMAIN data[elem]
    THEN [raised |-> TRUE, data |-> data]
    ELSE [raised |-> FALSE,
          data |-> [data EXCEPT ![elem] = [d \in DOMAIN @ \ {disp} |-> @[d]]]]

\* the mappings before the operation: any set of Offsets, each with the value
\* that names it, put into OffsetMapping(...)
InitMappings ==
    {OffsetMapping_init([k \in keys |-> <<"old", k[2]>>]) :
        keys \in SUBSET (Elements \X Displacements)}

\* the displacement maps assigned to an element: any displacements, with new
\* values
DisplacementMaps ==
    {[d \in ds |-> <<"new", d>>] : ds \in SUBSET Displacements}

InitMapping ==
    /\ mapping \in InitMappings
    /\ pc = "ready"
    /\ args = NoArgs
    /\ old = mapping
    /\ bi_size = 0
    /\ bi_contents = <<>>
    /\ bi_blocks = EmptyDict
    /\ bi_symbolic_expressions = EmptyDict
    /\ cfg = {}
    /\ symbols = EmptyDict
    /\ aux_data = EmptyDict
    /\ ctx = NoContext
    /\ text_section = EmptyDict
    /\ function_tables = EmptyDict
    /\ work = NoWork

NotMapping == UNCHANGED <<bi_size, bi_contents, bi_blocks, bi_symbolic_expressions, cfg, symbols, aux_data, ctx, text_section, function_tables, work>>

\* mapping[Offset(elem, disp)] = value
SetItemOffset ==
    /\ pc = "ready"
    /\ \E elem \in Elements, disp \in Displacements :
        /\ mapping' = OffsetMapping_setitem_offset(mapping, elem, disp, <<"new", disp>>)
        /\ args' = [op |-> "setitem_offset", elem |-> elem, disp |-> disp]
    /\ pc' = "returned"
    /\ old' = mapping
    /\ NotMapping

\* mapping[elem] = value, for a value that is a mapping of displacements
SetItemElement ==
    /\ pc = "ready"
    /\ \E elem \in Elements, value \in DisplacementMaps :
        /\ mapping' = OffsetMapping_setitem_element(mapping, elem, value)
        /\ args' = [op |-> "setitem_element", elem |-> elem, value |-> value]
    /\ pc' = "returned"
    /\ old' = mapping
    /\ NotMapping

\* mapping[elem] = value, for a value that is not a mapping: ValueError
SetItemNotMapping ==
    /\ pc = "ready"
    /\ \E elem \in Elements :
        args' = [op |-> "setitem_element", elem |-> elem, value |-> "not a mapping"]
    /\ pc' = "ValueError"
    /\ old' = mapping
    /\ UNCHANGED mapping
    /\ NotMapping

\* del mapping[Offset(elem, disp)]
DelItemOffset ==
    /\ pc = "ready"
    /\ \E elem \in Elements, disp \in Displacements :
        LET r == OffsetMapping_delitem_offset(mapping, elem, disp)
        IN  /\ mapping' = r.data
            /\ pc' = IF r.raised THEN "KeyError" ELSE "returned"
            /\ args' = [op |-> "delitem_offset", elem |-> elem, disp |-> disp]
    /\ old' = mapping
    /\ NotMapping

\* del mapping[elem], for an element of the mapping
DelItemElement ==
    /\ pc = "ready"
    /\ \E elem \in DOMAIN mapping :
        /\ mapping' = OffsetMapping_delitem_element(mapping, elem)
        /\ args' = [op |-> "delitem_element", elem |-> elem]
    /\ pc' = "returned"
    /\ old' = mapping
    /\ NotMapping

NextMapping ==
    \/ SetItemOffset
    \/ SetItemElement
    \/ SetItemNotMapping
    \/ DelItemOffset
    \/ DelItemElement

SpecMapping == InitMapping /\ [][NextMapping]_vars

\* ------------------------------------------------------------ RewritingContext
\* A patch is [name, asm]: asm is the fragment its assembly gives, over the
\* block ids "n1", "n2" and the symbol "new_sym"; get_asm returning "" is the
\* fragment without bytes.  A scope is [functions, blocks, offset,
\* replacement_length]: the functions and blocks it matches, the first of its
\* potential offsets and its replacement length.
EmptyAsm ==
    [bytes |-> <<>>, blocks |-> <<>>, cfg |-> {},
     symbolic_expressions |-> EmptyDict, symbols |-> EmptyDict]

\* the names of the blocks and of the symbol of the fragment assembled with
\* temp_symbol_suffix = _<patch_id>
PatchNames ==
    <<[n1 |-> "p1n1", n2 |-> "p1n2", new_sym |-> "new_sym_1"],
      [n1 |-> "p2n1", n2 |-> "p2n2", new_sym |-> "new_sym_2"],
      [n1 |-> "p3n1", n2 |-> "p3n2", new_sym |-> "new_sym_3"],
      [n1 |-> "p4n1", n2 |-> "p4n2", new_sym |-> "new_sym_4"],
      [n1 |-> "p5n1", n2 |-> "p5n2", new_sym |-> "new_sym_5"],
      [n1 |-> "p6n1", n2 |-> "p6n2", new_sym |-> "new_sym_6"],
      [n1 |-> "p7n1", n2 |-> "p7n2", new_sym |-> "new_sym_7"],
      [n1 |-> "p8n1", n2 |-> "p8n2", new_sym |-> "new_sym_8"],
      [n1 |-> "p9n1", n2 |-> "p9n2", new_sym |-> "new_sym_9"],
      [n1 |-> "p10n1", n2 |-> "p10n2", new_sym |-> "new_sym_10"],
      [n1 |-> "p11n1", n2 |-> "p11n2", new_sym |-> "new_sym_11"],
      [n1 |-> "p12n1", n2 |-> "p12n2", new_sym |-> "new_sym_12"],
      [n1 |-> "p13n1", n2 |-> "p13n2", new_sym |-> "new_sym_13"],
      [n1 |-> "p14n1", n2 |-> "p14n2", new_sym |-> "new_sym_14"],
      [n1 |-> "p15n1", n2 |-> "p15n2", new_sym |-> "new_sym_15"],
      [n1 |-> "p16n1", n2 |-> "p16n2", new_sym |-> "new_sym_16"],
      [n1 |-> "p17n1", n2 |-> "p17n2", new_sym |-> "new_sym_17"],
      [n1 |-> "p18n1", n2 |-> "p18n2", new_sym |-> "new_sym_18"],
      [n1 |-> "p19n1", n2 |-> "p19n2", new_sym |-> "new_sym_19"],
      [n1 |-> "p20n1", n2 |-> "p20n2", new_sym |-> "new_sym_20"],
      [n1 |-> "p21n1", n2 |-> "p21n2", new_sym |-> "new_sym_21"],
      [n1 |-> "p22n1", n2 |-> "p22n2", new_sym |-> "new_sym_22"],
      [n1 |-> "p23n1", n2 |-> "p23n2", new_sym |-> "new_sym_23"],
      [n1 |-> "p24n1", n2 |-> "p24n2", new_sym |-> "new_sym_24"]>>

Rename(id, patch_id) ==
    IF id = "n1" THEN PatchNames[patch_id].n1
    ELSE IF id = "n2" THEN PatchNames[patch_id].n2
    ELSE id

\* Assembler(...).assemble(asm); assembler.finalize(): the fragment, with
\* fresh blocks and a fresh symbol
Assemble(asm, patch_id) ==
    [bytes |-> asm.bytes,
     blocks |-> [i \in 1..Len(asm.blocks) |->
                    [asm.blocks[i] EXCEPT !.id = Rename(@, patch_id)]],
     cfg |-> {Edge(Rename(e.source, patch_id), Rename(e.target, patch_id), e.label) :
                 e \in asm.cfg},
     symbolic_expressions |-> asm.symbolic_expressions,
     symbols |-> [n \in {PatchNames[patch_id].new_sym : x \in DOMAIN asm.symbols} |->
                     Rename(asm.symbols["new_sym"], patch_id)]]

\* The pass works on w = [m, text_section, function_tables, functions_by_block,
\* patch_id, log, pc]: the module with the byte interval "bi", the byte
\* intervals added to the text section, the aux data tables of the functions,
\* modify_cache.functions_by_block, self._patch_id, what the pass did so far
\* (the stubs it made and its calls of _invoke_patch), and "running" or the
\* exception raised.

\* the module seen from the byte interval bi
ModuleOf(w, bi) ==
    IF bi = "bi" THEN w.m
    ELSE [w.m EXCEPT !.bi_size = w.text_section[bi].bi_size,
                     !.bi_contents = w.text_section[bi].bi_contents,
                     !.bi_blocks = w.text_section[bi].bi_blocks,
                     !.bi_symbolic_expressions =
                         w.text_section[bi].bi_symbolic_expressions]

\* the pass after the splice into the byte interval bi left the module m2
StoreModule(w, bi, m2) ==
    IF bi = "bi" THEN [w EXCEPT !.m = m2]
    ELSE [w EXCEPT
            !.m = [@ EXCEPT !.cfg = m2.cfg, !.symbols = m2.symbols,
                            !.aux_data = m2.aux_data],
            !.text_section[bi] =
                [bi_size |-> m2.bi_size, bi_contents |-> m2.bi_contents,
                 bi_blocks |-> m2.bi_blocks,
                 bi_symbolic_expressions |-> m2.bi_symbolic_expressions]]

\* the block the splice returns: the block, among the target block and the
\* fragment blocks, that holds the last byte of the inserted fragment
end_block(m2, block, at, frag) ==
    LET last_byte == at + Len(frag.bytes) - 1
        candidates == ({block} \cup {frag.blocks[i].id : i \in 1..Len(frag.blocks)})
                          \cap DOMAIN m2.bi_blocks
    IN  CHOOSE b \in candidates :
            /\ m2.bi_blocks[b].offset <= last_byte
            /\ last_byte < m2.bi_blocks[b].offset + m2.bi_blocks[b].size

\* what _invoke_patch did, in the words of its arguments
LogEntry(context, patch, block, size, offset, replacement_length, patch_id) ==
    [kind |-> context.kind, function |-> context.function,
     block |-> context.block, offset |-> context.offset, patch |-> patch.name,
     target |-> block, size |-> size, at |-> offset,
     replacement_length |-> replacement_length,
     bytes |-> patch.asm.bytes, patch_id |-> patch_id]

\* _invoke_patch(modify_cache, func, block, offset, replacement_length, patch,
\* context): the pass afterwards, the block that ends the patch and the
\* number of bytes inserted
_invoke_patch(w, bi, block, offset, replacement_length, patch, context) ==
    LET mod == ModuleOf(w, bi)
        patch_id == IF patch.asm.bytes = <<>> THEN w.patch_id ELSE w.patch_id + 1
        frag == Assemble(patch.asm, patch_id)
        size == IF block \in DOMAIN mod.bi_blocks THEN mod.bi_blocks[block].size ELSE 0
        entry == LogEntry(context, patch, block, size, offset, replacement_length, patch_id)
        logged == [w EXCEPT !.log = Append(@, entry), !.patch_id = patch_id]
    IN  IF patch.asm.bytes = <<>>
        THEN [w |-> logged, new_end |-> block, insert_len |-> 0]
        ELSE IF ~Precondition(mod, block, offset, replacement_length, frag)
        THEN [w |-> [logged EXCEPT !.pc = "AssertionError"],
              new_end |-> block, insert_len |-> 0]
        ELSE LET r == _modify_block_insert(mod, block, offset, replacement_length, frag)
                 stored == StoreModule(logged, bi, r.m)
             IN  IF r.pc # "returned"
                 THEN [w |-> [stored EXCEPT !.pc = r.pc],
                       new_end |-> block, insert_len |-> 0]
                 ELSE [w |-> stored,
                       new_end |-> end_block(r.m, block, mod.bi_blocks[block].offset + offset, frag),
                       insert_len |-> Len(frag.bytes)]

\* insertions_and_offsets.sort(key=operator.itemgetter(1)) that puts, of two
\* insertions with the same offset, the one registered later first
sort_by_offset_reverses_ties(s) ==
    LET n == Len(s)
        rank(i) == 1 + Cardinality({j \in 1..n :
                        \/ s[j].offset < s[i].offset
                        \/ s[j].offset = s[i].offset /\ j > i})
    IN  [k \in 1..n |-> s[CHOOSE i \in 1..n : rank(i) = k]]

\* insertions_and_offsets.sort(key=operator.itemgetter(1)): ascending offset,
\* stable
sort_by_offset(s) ==
    LET n == Len(s)
        rank(i) == 1 + Cardinality({j \in 1..n :
                        \/ s[j].offset < s[i].offset
                        \/ s[j].offset = s[i].offset /\ j < i})
    IN  [k \in 1..n |-> s[CHOOSE i \in 1..n : rank(i) = k]]

\* last_end before the k-th sorted insertion is checked
last_end(sorted, k) ==
    IF k = 1 THEN 0
    ELSE sorted[k - 1].offset + sorted[k - 1].insertion.scope.replacement_length

\* no_overlap that compares the offsets only, not the ends of the replaced
\* ranges
no_overlap_ignores_length(sorted) ==
    \A k \in 2..Len(sorted) : sorted[k].offset >= sorted[k - 1].offset

\* the loop of assertions "Insertions and replacements overlap" passes
no_overlap(sorted) ==
    \A k \in 1..Len(sorted) : sorted[k].offset >= last_end(sorted, k)

RECURSIVE apply_loop(_, _, _, _, _, _, _)
\* the loop over insertions_and_offsets that invokes the patches, from the
\* k-th on
apply_loop(w, sorted, k, actual_block, total_insert_len, func, block) ==
    IF k > Len(sorted) \/ w.pc # "running" THEN w
    ELSE LET insertion == sorted[k].insertion
             offset == sorted[k].offset
             block_delta == w.m.bi_blocks[actual_block].offset - w.m.bi_blocks[block].offset
             context == [kind |-> "insertion", function |-> func, block |-> block, offset |-> offset]
             r == _invoke_patch(w, "bi", actual_block, offset + total_insert_len - block_delta, insertion.scope.replacement_length, insertion.patch, context)
         IN  apply_loop(r.w, sorted, k + 1, r.new_end,
                        total_insert_len + (r.insert_len - insertion.scope.replacement_length),
                        func, block)

\* _apply_insertions(modify_cache, insertions, func, block)
_apply_insertions(w, insertions, func, block) ==
    LET insertions_and_offsets ==
            [i \in 1..Len(insertions) |->
                [insertion |-> insertions[i], offset |-> insertions[i].scope.offset]]
        sorted == sort_by_offset(insertions_and_offsets)
    IN  IF ~no_overlap(sorted)
        THEN [w EXCEPT !.pc = "AssertionError: Insertions and replacements overlap"]
        ELSE apply_loop(w, sorted, 1, block, 0, func, block)

\* the list comprehensions of apply(): the elements of s for which test holds
Filter(s, test(_)) ==
    LET F[i \in 0..Len(s)] ==
            IF i = 0 THEN <<>>
            ELSE IF test(s[i]) THEN Append(F[i - 1], s[i]) ELSE F[i - 1]
    IN  F[Len(s)]

\* self._abi.nop(), the encoding of a no-op (x86: 0x90)
nop_encoding == <<144>>

Return == "Return"

\* the proxy block made for the return edge of the stub of a block
ReturnProxy(block) == IF block = "s1" THEN "proxy_s1"
                      ELSE IF block = "s2" THEN "proxy_s2"
                      ELSE IF block = "s3" THEN "proxy_s3"
                      ELSE "proxy_s4"

\* uuid.uuid4(): a uuid of no function so far
FreshUuid(tables) == 100 + Cardinality(DOMAIN tables.functionEntries)

\* block.size of a block made by register_insert_function: 0 until a stub
\* has put it into a byte interval
StubSize(w, block) ==
    IF block \in DOMAIN w.text_section
    THEN w.text_section[block].bi_blocks[block].size
    ELSE 0

\* _insert_function_stub(modify_cache, sym, block)
_insert_function_stub(w, sym, block) ==
    IF w.m.symbols[sym] # block \/ StubSize(w, block) # 0
    THEN [w EXCEPT !.pc = "AssertionError"]
    ELSE LET func_uuid == FreshUuid(w.function_tables)
             bi == [bi_size |-> Len(nop_encoding),
                    bi_contents |-> nop_encoding,
                    bi_blocks |-> [b \in {block} |->
                                      [offset |-> 0, size |-> Len(nop_encoding)]],
                    bi_symbolic_expressions |-> EmptyDict]
         IN  [w EXCEPT
                !.text_section = DictUpdate(@, [b \in {block} |-> bi]),
                !.m.cfg = @ \cup {Edge(block, ReturnProxy(block), Return)},
                !.function_tables.functionEntries =
                    DictUpdate(@, [u \in {func_uuid} |-> {block}]),
                !.function_tables.functionBlocks =
                    DictUpdate(@, [u \in {func_uuid} |-> {block}]),
                !.function_tables.functionNames =
                    DictUpdate(@, [u \in {func_uuid} |-> sym]),
                !.functions_by_block = DictUpdate(@, [b \in {block} |-> func_uuid]),
                !.log = Append(@, [kind |-> "stub", function |-> func_uuid,
                                   block |-> block])]

\* _apply_function_insertion that inserts the patch before the no-op of the
\* stub instead of replacing it
_apply_function_insertion_keeps_nop(w, sym, block, patch) ==
    IF w.m.symbols[sym] # block
    THEN [w EXCEPT !.pc = "AssertionError"]
    ELSE LET func == w.functions_by_block[block]
             context == [kind |-> "function", function |-> func, block |-> block, offset |-> 0]
         IN  _invoke_patch(w, block, block, 0, 0, patch, context).w

\* _apply_function_insertion(modify_cache, sym, block, patch); the patches of
\* the model set no constraints
_apply_function_insertion(w, sym, block, patch) ==
    IF w.m.symbols[sym] # block
    THEN [w EXCEPT !.pc = "AssertionError"]
    ELSE LET func == w.functions_by_block[block]
             context == [kind |-> "function", function |-> func, block |-> block, offset |-> 0]
         IN  _invoke_patch(w, block, block, 0, StubSize(w, block), patch, context).w

RECURSIVE insert_function_stubs(_, _, _)
\* for func in self._function_insertions: self._insert_function_stub(...)
insert_function_stubs(w, function_insertions, i) ==
    IF i > Len(function_insertions) \/ w.pc # "running" THEN w
    ELSE insert_function_stubs(
             _insert_function_stub(w, function_insertions[i].symbol,
                                   function_insertions[i].block),
             function_insertions, i + 1)

RECURSIVE apply_function_insertions(_, _, _)
\* for func in self._function_insertions: self._apply_function_insertion(...)
apply_function_insertions(w, function_insertions, i) ==
    IF i > Len(function_insertions) \/ w.pc # "running" THEN w
    ELSE apply_function_insertions(
             _apply_function_insertion(w, function_insertions[i].symbol,
                                       function_insertions[i].block,
                                       function_insertions[i].patch),
             function_insertions, i + 1)

\* sorted(self._functions, key=lambda f: f.uuid)
sort_functions(functions) ==
    LET n == Len(functions)
        rank(i) == 1 + Cardinality({j \in 1..n :
                        \/ functions[j].uuid < functions[i].uuid
                        \/ functions[j].uuid = functions[i].uuid /\ j < i})
    IN  [k \in 1..n |-> functions[CHOOSE i \in 1..n : rank(i) = k]]

\* sorted(f.get_all_blocks(), key=lambda b: b.address); the blocks of the
\* functions are blocks of the byte interval "bi"
sort_blocks(m, blocks) ==
    LET rank(b) == 1 + Cardinality({c \in blocks :
                        m.bi_blocks[c].offset < m.bi_blocks[b].offset})
    IN  [k \in 1..Cardinality(blocks) |-> CHOOSE b \in blocks : rank(b) = k]

RECURSIVE apply_blocks(_, _, _, _, _)
\* for b in sorted(f.get_all_blocks(), ...): the insertions of the function
\* that match the block are applied to it
apply_blocks(w, func_insertions, f, blocks, i) ==
    IF i > Len(blocks) \/ w.pc # "running" THEN w
    ELSE LET b == blocks[i]
             matches(insertion) == b \in insertion.scope.blocks
             block_insertions == Filter(func_insertions, matches)
         IN  apply_blocks(
                 IF block_insertions = <<>> THEN w
                 ELSE _apply_insertions(w, block_insertions, f.uuid, b),
                 func_insertions, f, blocks, i + 1)

\* the body of the loop of apply() over the functions, for the function f
apply_function(w, insertions, f) ==
    LET matches(insertion) == f.uuid \in insertion.scope.functions
        func_insertions == Filter(insertions, matches)
    IN  IF func_insertions = <<>> THEN w
        ELSE apply_blocks(w, func_insertions, f, sort_blocks(w.m, f.blocks), 1)

\* ------------------------------------------------------------ one pass of apply()
MaxInsertions == 2            \* most calls of register_insert
MaxFunctionInsertions == 2    \* most calls of register_insert_function
MaxApplies == 2               \* most calls of apply()

\* The module of the pass: the byte interval "bi" with block "B" at offset 1
\* and block "C" right after it, "B" falling through to "C"; no offset-keyed
\* aux data tables.
ApplyModule ==
    [bi_size |-> BiSize,
     bi_contents |-> [i \in 1..BiSize |-> i],
     bi_blocks |-> [b \in {"B", "C"} |->
                       IF b = "B" THEN [offset |-> 1, size |-> BlockSize]
                                  ELSE [offset |-> 1 + BlockSize, size |-> 1]],
     bi_symbolic_expressions |-> EmptyDict,
     cfg |-> {Edge("X", "B", Branch), Edge("B", "C", Fallthrough)},
     symbols |-> [n \in {"symB", "symC"} |-> IF n = "symB" THEN "B" ELSE "C"],
     aux_data |-> EmptyDict]

\* The functions handed to RewritingContext(module, functions): one function
\* that is block "B" alone; one function of both blocks; or two functions,
\* listed against the order of their uuids, the one with the smaller uuid
\* holding the block with the larger address.
OneBlockFunctions == <<[uuid |-> 1, blocks |-> {"B"}]>>
FunctionLists ==
    {OneBlockFunctions,
     <<[uuid |-> 1, blocks |-> {"B", "C"}]>>,
     <<[uuid |-> 2, blocks |-> {"B"}], [uuid |-> 1, blocks |-> {"C"}]>>}

\* the assembly of a patch: one block, with or without a symbol on it; two
\* blocks, the first falling through to the second; the bytes name the patch
OneBlockAsm(len, base, with_symbol) ==
    [bytes |-> [j \in 1..len |-> base + j],
     blocks |-> FragmentBlocks(<<len>>),
     cfg |-> {},
     symbolic_expressions |-> EmptyDict,
     symbols |-> IF with_symbol THEN [n \in {"new_sym"} |-> "n1"] ELSE EmptyDict]

TwoBlockAsm(len, base) ==
    [bytes |-> [j \in 1..len |-> base + j],
     blocks |-> FragmentBlocks(<<1, len - 1>>),
     cfg |-> {Edge("n1", "n2", Fallthrough)},
     symbolic_expressions |-> EmptyDict,
     symbols |-> EmptyDict]

\* The scopes and patches a caller registers.  For the function that is "B"
\* alone: any offset of "B", inserting or replacing BlockSize - 1 bytes, with
\* a patch that is empty, one byte without symbol, or MaxFragLen bytes with a
\* symbol.  For the other functions: all blocks of all functions or of the
\* function with uuid 1, or block "B" at offset 0 or 1, or the first byte of
\* block "B" replaced, with a patch of one byte, with or without a symbol.
Scopes(functions) ==
    IF functions = OneBlockFunctions
    THEN {[functions |-> {1}, blocks |-> {"B"}, offset |-> x[1], replacement_length |-> x[2]] :
             x \in {y \in (0..BlockSize) \X {0, BlockSize - 1} : y[1] + y[2] <= BlockSize}}
    ELSE {[functions |-> x[1], blocks |-> x[2], offset |-> x[3], replacement_length |-> x[4]] :
             x \in {<<{1, 2}, {"B", "C"}, 0, 0>>, <<{1}, {"B", "C"}, 0, 0>>,
                    <<{1, 2}, {"B"}, 0, 0>>, <<{1, 2}, {"B"}, 1, 0>>,
                    <<{1, 2}, {"B"}, 0, 1>>}}

Asms(functions, name) ==
    IF functions = OneBlockFunctions
    THEN {EmptyAsm, OneBlockAsm(1, 10 * name, FALSE),
          OneBlockAsm(MaxFragLen, 10 * name, TRUE)}
    ELSE {OneBlockAsm(1, 10 * name, FALSE), OneBlockAsm(1, 10 * name, TRUE)}

FunctionAsms(name) == {EmptyAsm, TwoBlockAsm(MaxFragLen, 200 + 10 * name)}

\* the block and the symbol register_insert_function makes on its i-th call
NewFunctionBlock == <<"s1", "s2", "s3", "s4">>
NewFunctionSymbol == <<"fun1", "fun2", "fun3", "fun4">>

\* the functionEntries, functionBlocks and functionNames of the functions
InitFunctionTables(functions) ==
    LET uuids == {functions[i].uuid : i \in 1..Len(functions)}
        f(u) == CHOOSE x \in Range(functions) : x.uuid = u
    IN  [functionEntries |-> [u \in uuids |-> f(u).blocks],
         functionBlocks |-> [u \in uuids |-> f(u).blocks],
         functionNames |-> [u \in uuids |-> "symB"]]

\* the pass as one record, and the variables after it
World ==
    [m |-> Module, text_section |-> text_section,
     function_tables |-> function_tables,
     functions_by_block |-> work.functions_by_block,
     patch_id |-> ctx._patch_id, log |-> work.log, pc |-> "running"]

SetWorld(w, stage, todo) ==
    /\ bi_size' = w.m.bi_size
    /\ bi_contents' = w.m.bi_contents
    /\ bi_blocks' = w.m.bi_blocks
    /\ bi_symbolic_expressions' = w.m.bi_symbolic_expressions
    /\ cfg' = w.m.cfg
    /\ symbols' = w.m.symbols
    /\ aux_data' = w.m.aux_data
    /\ text_section' = w.text_section
    /\ function_tables' = w.function_tables
    /\ ctx' = [ctx EXCEPT !._patch_id = w.patch_id]
    /\ work' = [log |-> w.log, stage |-> stage, todo |-> todo,
                applies |-> IF pc = "running" THEN work.applies ELSE work.applies + 1,
                functions_by_block |-> w.functions_by_block]
    /\ pc' = w.pc
    /\ old' = Module
    /\ UNCHANGED <<args, mapping>>

\* RewritingContext(module, functions)
InitApply ==
    /\ bi_size = ApplyModule.bi_size
    /\ bi_contents = ApplyModule.bi_contents
    /\ bi_blocks = ApplyModule.bi_blocks
    /\ bi_symbolic_expressions = ApplyModule.bi_symbolic_expressions
    /\ cfg = ApplyModule.cfg
    /\ symbols = ApplyModule.symbols
    /\ aux_data = ApplyModule.aux_data
    /\ \E functions \in FunctionLists :
        /\ ctx = [_functions |-> functions, _insertions |-> <<>>,
                  _function_insertions |-> <<>>, _patch_id |-> 0]
        /\ function_tables = InitFunctionTables(functions)
    /\ text_section = EmptyDict
    /\ work = [log |-> <<>>, stage |-> "idle", todo |-> <<>>, applies |-> 0,
               functions_by_block |-> EmptyDict]
    /\ pc = "idle"
    /\ args = NoArgs
    /\ old = ApplyModule
    /\ mapping = NoMapping

\* register_insert(scope, patch)
register_insert ==
    /\ pc = "idle"
    /\ Len(ctx._insertions) < MaxInsertions
    /\ \E scope \in Scopes(ctx._functions) :
       \E asm \in Asms(ctx._functions, Len(ctx._insertions) + 1) :
        ctx' = [ctx EXCEPT !._insertions =
                   Append(@, [scope |-> scope,
                              patch |-> [name |-> Len(ctx._insertions) + 1,
                                         asm |-> asm]])]
    /\ UNCHANGED <<bi_size, bi_contents, bi_blocks, bi_symbolic_expressions, cfg, symbols, aux_data, pc, args, old, mapping, text_section, function_tables, work>>

\* register_insert_function(name, patch)
register_insert_function ==
    /\ pc = "idle"
    /\ ctx._functions # OneBlockFunctions
    /\ Len(ctx._function_insertions) < MaxFunctionInsertions
    /\ LET i == Len(ctx._function_insertions) + 1
           block == NewFunctionBlock[i]
           sym == NewFunctionSymbol[i]
       IN  /\ symbols' = DictUpdate(symbols, [n \in {sym} |-> block])
           /\ \E asm \in FunctionAsms(i) :
                ctx' = [ctx EXCEPT !._function_insertions =
                           Append(@, [symbol |-> sym, block |-> block,
                                      patch |-> [name |-> i, asm |-> asm]])]
    /\ UNCHANGED <<bi_size, bi_contents, bi_blocks, bi_symbolic_expressions, cfg, aux_data, pc, args, old, mapping, text_section, function_tables, work>>

\* apply(), called on the context as the registrations or the apply() before
\* left it: a new _ModifyCache is made, the pending lists are not touched,
\* and the stubs of the function insertions are made
apply_stubs ==
    /\ pc \in {"idle", "done"}
    /\ work.applies < MaxApplies
    /\ SetWorld(insert_function_stubs(
                    [World EXCEPT !.log = <<>>, !.functions_by_block = EmptyDict],
                    ctx._function_insertions, 1),
                "function_insertions", <<>>)

\* apply(): the patches of the function insertions are spliced into the stubs
apply_function_patches ==
    /\ pc = "running"
    /\ work.stage = "function_insertions"
    /\ SetWorld(apply_function_insertions(World, ctx._function_insertions, 1),
                "functions", sort_functions(ctx._functions))

\* apply(): the insertions of the next function are applied
apply_next_function ==
    /\ pc = "running"
    /\ work.stage = "functions"
    /\ work.todo # <<>>
    /\ SetWorld(apply_function(World, ctx._insertions, work.todo[1]),
                "functions", Tail1(work.todo))

\* apply(): all functions are done, the cfiDirectives table is removed and
\* apply() returns
apply_return ==
    /\ pc = "running"
    /\ work.stage = "functions"
    /\ work.todo = <<>>
    /\ pc' = "done"
    /\ old' = Module
    /\ UNCHANGED <<bi_size, bi_contents, bi_blocks, bi_symbolic_expressions, cfg, symbols, aux_data, args, mapping, ctx, text_section, function_tables, work>>

NextApply ==
    \/ register_insert
    \/ register_insert_function
    \/ apply_stubs
    \/ apply_function_patches
    \/ apply_next_function
    \/ apply_return

SpecApply == InitApply /\ [][NextApply]_vars

\* ------------------------------------------------------------ the claims
\* what the claims speak of: the call returned, the insertion point p in the
\* byte interval, size_delta, the block before the call, the fragment
Returned == pc = "returned"
Block == args.block
Frag == args.fragment
P == old.bi_blocks[Block].offset + args.offset
SizeDelta == Len(Frag.bytes) - args.replacement_length
OldBlock == old.bi_blocks[Block]
InsertsAtEnd == args.replacement_length = 0 /\ args.offset = OldBlock.size
ReplacesLast ==
    args.replacement_length > 0 /\ args.offset + args.replacement_length = OldBlock.size
FragIds == {Frag.blocks[i].id : i \in 1..Len(Frag.blocks)}
FirstId == Frag.blocks[1].id
LastId == Last(Frag.blocks).id
OldOut == out_edges(old.cfg, Block)

\* C1: a call that does not raise UnresolvedZeroBlock (NotImplementedError)
\* returns, its assertion on the sizes does not fail, and every block of the
\* byte interval, the target block and the fragment blocks added to it
\* included, has size >= 1.
Thm_C1 ==
    pc # "NotImplementedError" =>
        /\ pc # "AssertionError"
        /\ \A b \in DOMAIN bi_blocks : bi_blocks[b].size >= 1

\* C1 witness: a splice at offset 0 of a fragment that ends in an empty block
\* returned and added a fragment block to the byte interval
Wit_C1 ==
    /\ Returned
    /\ Last(Frag.blocks).size = 0
    /\ FragIds \cap DOMAIN bi_blocks # {}

\* the bytes the claim C2 expects: old[0..p), fragment.bytes, old[p + rl ..)
ExpectedContents ==
    [i \in 1..(Len(old.bi_contents) + SizeDelta) |->
        IF i <= P THEN old.bi_contents[i]
        ELSE IF i <= P + Len(Frag.bytes) THEN Frag.bytes[i - P]
        ELSE old.bi_contents[i - SizeDelta]]

\* C2: after a successful splice the contents are old[0..p) + fragment.bytes +
\* old[p + replacement_length ..), the size has grown by size_delta and the
\* length of the contents is the size.
Thm_C2 ==
    Returned =>
        /\ bi_contents = ExpectedContents
        /\ bi_size = old.bi_size + SizeDelta
        /\ Len(bi_contents) = bi_size

\* C2 witness: a successful splice that replaced bytes in the middle of the
\* block by fewer bytes
Wit_C2 ==
    /\ Returned
    /\ args.offset > 0
    /\ args.replacement_length > Len(Frag.bytes)

\* C3 as stated: every block of the interval whose offset was >= p, the
\* target block included, has moved by size_delta, every other block has kept
\* its offset.
Orig_C3 ==
    Returned =>
        \A b \in DOMAIN old.bi_blocks :
            bi_blocks[b].offset =
                IF old.bi_blocks[b].offset >= P
                THEN old.bi_blocks[b].offset + SizeDelta
                ELSE old.bi_blocks[b].offset

\* C3 amended: every block of the interval other than the target block whose
\* offset was >= p has moved by size_delta, every other block has kept its
\* offset, and the target block has kept its offset, also when offset = 0.
Thm_C3 ==
    Returned =>
        /\ bi_blocks[Block].offset = OldBlock.offset
        /\ \A b \in DOMAIN old.bi_blocks \ {Block} :
            bi_blocks[b].offset =
                IF old.bi_blocks[b].offset >= P
                THEN old.bi_blocks[b].offset + SizeDelta
                ELSE old.bi_blocks[b].offset

\* C3 witness: a successful splice at offset 0 that changed the size of the
\* interval, with another block starting at the insertion point
Wit_C3 ==
    /\ Returned
    /\ args.offset = 0
    /\ SizeDelta # 0
    /\ \E b \in DOMAIN old.bi_blocks \ {Block} : old.bi_blocks[b].offset = P

RECURSIVE SumSizes(_, _)
\* the sum of the sizes of the blocks ids of the function blocks
SumSizes(blocks, ids) ==
    IF ids = {} THEN 0
    ELSE LET b == CHOOSE x \in ids : TRUE
         IN  blocks[b].size + SumSizes(blocks, ids \ {b})

\* C4: after a successful splice every block of the byte interval lies inside
\* it, every fragment block that was added sits at p + its offset in the
\* fragment, and the sizes of the target block and of the added fragment
\* blocks sum to original size - replacement_length + len(fragment.bytes).
Orig_C4 ==
    Returned =>
        /\ \A b \in DOMAIN bi_blocks :
            /\ 0 <= bi_blocks[b].offset
            /\ bi_blocks[b].offset + bi_blocks[b].size <= bi_size
        /\ \A i \in 1..Len(Frag.blocks) :
            Frag.blocks[i].id \in DOMAIN bi_blocks =>
                bi_blocks[Frag.blocks[i].id].offset = P + Frag.blocks[i].offset
        /\ SumSizes(bi_blocks, {Block} \cup (FragIds \cap DOMAIN bi_blocks)) =
               OldBlock.size - args.replacement_length + Len(Frag.bytes)

\* the symbolic expressions that stay (k < p) and that move (k >= p + rl)
KeptKeys == {k \in DOMAIN old.bi_symbolic_expressions : k < P}
MovedKeys ==
    {k \in DOMAIN old.bi_symbolic_expressions : k >= P + args.replacement_length}

\* C5: after a successful splice the symbolic expressions are the old entries
\* at k < p, the old entries at k >= p + replacement_length moved to
\* k + size_delta, and the fragment's entries at p + rel; none of them
\* collide, so their number is the sum of the three.
Thm_C5 ==
    Returned =>
        /\ DOMAIN bi_symbolic_expressions =
               KeptKeys \cup {k + SizeDelta : k \in MovedKeys}
                        \cup {P + rel : rel \in DOMAIN Frag.symbolic_expressions}
        /\ \A k \in KeptKeys :
               bi_symbolic_expressions[k] = old.bi_symbolic_expressions[k]
        /\ \A k \in MovedKeys :
               bi_symbolic_expressions[k + SizeDelta] = old.bi_symbolic_expressions[k]
        /\ \A rel \in DOMAIN Frag.symbolic_expressions :
               bi_symbolic_expressions[P + rel] = Frag.symbolic_expressions[rel]
        /\ Cardinality(DOMAIN bi_symbolic_expressions) =
               Cardinality(KeptKeys) + Cardinality(MovedKeys)
                   + Cardinality(DOMAIN Frag.symbolic_expressions)

\* C5 witness: a successful splice that replaced bytes by fewer bytes, with
\* symbolic expressions before, inside and after the replaced range
Wit_C5 ==
    /\ Returned
    /\ SizeDelta < 0
    /\ KeptKeys # {}
    /\ MovedKeys # {}
    /\ \E k \in DOMAIN old.bi_symbolic_expressions :
           P <= k /\ k < P + args.replacement_length

\* the entries (element, displacement, value) of an aux data table
Entries(table) ==
    IF table.is_offset_mapping THEN OffsetMapping_items(table.data)
    ELSE {<<k[1], k[2], table.data[k]>> : k \in DOMAIN table.data}

\* the entries the claim C6 expects after the splice
ExpectedEntries(es) ==
    {x \in es : x[1] # "bi" \/ x[2] < P} \cup
    {<<x[1], x[2] + SizeDelta, x[3]>> :
        x \in {y \in es : y[1] = "bi" /\ y[2] >= P + args.replacement_length}}

\* C6: after a successful splice, in every offset-keyed aux data table that
\* exists the entries of the byte interval at d < p are kept, those at
\* d >= p + replacement_length are moved to d + size_delta, those in between
\* are removed, and the entries of every other element are unchanged, also
\* when the table was a plain dict.
Thm_C6 ==
    Returned =>
        /\ DOMAIN aux_data = DOMAIN old.aux_data
        /\ \A name \in DOMAIN old.aux_data :
               Entries(aux_data[name]) = ExpectedEntries(Entries(old.aux_data[name]))

\* C6 witness: a successful splice that replaced bytes by more bytes in a
\* module with a plain table that has entries of the byte interval
Wit_C6 ==
    /\ Returned
    /\ args.replacement_length > 0
    /\ SizeDelta > 0
    /\ \E name \in DOMAIN old.aux_data :
           /\ ~old.aux_data[name].is_offset_mapping
           /\ \E x \in Entries(old.aux_data[name]) : x[1] = "bi"

\* the arguments of a trivial splice
TrivialArgs ==
    /\ Frag.cfg = {}
    /\ DOMAIN Frag.symbols = {}
    /\ ~InsertsAtEnd
    /\ ~ReplacesLast

\* C7: a trivial splice changes block.size to block.size + len(fragment.bytes)
\* - replacement_length, adds no block to the byte interval, leaves the module
\* CFG unchanged and adds or re-points no symbol.
Thm_C7 ==
    (Returned /\ TrivialArgs) =>
        /\ bi_blocks[Block].size =
               OldBlock.size + Len(Frag.bytes) - args.replacement_length
        /\ DOMAIN bi_blocks = DOMAIN old.bi_blocks
        /\ \A b \in DOMAIN old.bi_blocks \ {Block} :
               bi_blocks[b].size = old.bi_blocks[b].size
        /\ cfg = old.cfg
        /\ symbols = old.symbols

\* C7 witness: a trivial splice of a fragment of two blocks into a block that
\* has outgoing edges returned
Wit_C7 ==
    /\ Returned
    /\ TrivialArgs
    /\ Len(Frag.blocks) = 2
    /\ OldOut # {}

\* an insertion strictly inside the block
InteriorInsertion ==
    /\ args.replacement_length = 0
    /\ 0 < args.offset
    /\ args.offset < OldBlock.size

\* the block is split at offset: it keeps its first offset bytes, the last
\* fragment block takes the rest of it, the block falls through to the first
\* fragment block and its outgoing edges leave the last fragment block
SplitAtOffset ==
    /\ bi_blocks[Block].size = args.offset
    /\ LastId \in DOMAIN bi_blocks
    /\ bi_blocks[LastId].size =
           Last(Frag.blocks).size + OldBlock.size - args.offset
               - args.replacement_length
    /\ Edge(Block, FirstId, Fallthrough) \in cfg
    /\ \A e \in OldOut : e \notin cfg /\ [e EXCEPT !.source = LastId] \in cfg

\* C8 as stated: an interior insertion into a block with an outgoing edge
\* that is not a fall-through splits the block, whatever the fragment.
Orig_C8 ==
    (Returned /\ InteriorInsertion
       /\ \E e \in OldOut : ~_is_fallthrough_edge(e)) => SplitAtOffset

\* C8 amended: an interior insertion into a block with an outgoing edge that
\* is not a fall-through splits the block when the fragment has CFG edges or
\* defines symbols; when it has neither the splice is trivial: the block
\* grows by len(fragment.bytes), no block is added and its outgoing edges
\* still leave the block.
Thm_C8 ==
    (Returned /\ InteriorInsertion
       /\ \E e \in OldOut : ~_is_fallthrough_edge(e)) =>
        IF Frag.cfg = {} /\ DOMAIN Frag.symbols = {}
        THEN /\ bi_blocks[Block].size = OldBlock.size + Len(Frag.bytes)
             /\ DOMAIN bi_blocks = DOMAIN old.bi_blocks
             /\ out_edges(cfg, Block) = OldOut
        ELSE SplitAtOffset

\* C8 witness: an interior insertion of a single-block fragment that defines
\* a symbol, into a block with a branch edge, returned
Wit_C8 ==
    /\ Returned
    /\ InteriorInsertion
    /\ Edge(Block, "X", Branch) \in OldOut
    /\ Len(Frag.blocks) = 1
    /\ DOMAIN Frag.symbols # {}

\* what C9 says of an insertion at the end of the block
AtEndEdges ==
    /\ bi_blocks[Block].size = OldBlock.size
    /\ Edge(Block, FirstId, Fallthrough) \in cfg
           <=> \E e \in OldOut : _is_fallthrough_edge(e)
    /\ \A e \in OldOut :
           IF _is_fallthrough_edge(e)
           THEN e \notin cfg /\ [e EXCEPT !.source = LastId] \in cfg
           ELSE e \in cfg

\* C9 as stated: after an insertion at the end of the block, block.size is
\* unchanged, the block falls through to the first fragment block iff it fell
\* through before, its fall-through edges leave the last fragment block and
\* its other edges still leave the block.
Orig_C9 == (Returned /\ InsertsAtEnd) => AtEndEdges

\* C9 amended: the same, for a fragment whose last block is not empty.
Thm_C9 ==
    (Returned /\ InsertsAtEnd /\ Last(Frag.blocks).size >= 1) => AtEndEdges

\* C9 witness: an insertion at the end of a block that has a fall-through
\* edge and a branch edge returned
Wit_C9 ==
    /\ Returned
    /\ InsertsAtEnd
    /\ Last(Frag.blocks).size >= 1
    /\ \E e \in OldOut : _is_fallthrough_edge(e)
    /\ \E e \in OldOut : ~_is_fallthrough_edge(e)

\* C9 witness: an insertion at the end of a block that has no fall-through
\* edge returned (the case of a block ending in ret)
Wit_C9_ret ==
    /\ Returned
    /\ InsertsAtEnd
    /\ Last(Frag.blocks).size >= 1
    /\ OldOut # {}
    /\ \A e \in OldOut : ~_is_fallthrough_edge(e)

\* what C10 says of a replacement of the last bytes of the block
ReplacedLastEdges ==
    /\ bi_blocks[Block].size = args.offset
    /\ LastId \in DOMAIN bi_blocks
    /\ bi_blocks[LastId].size = Last(Frag.blocks).size
    /\ \A e \in OldOut :
           IF _is_fallthrough_edge(e)
           THEN e \notin cfg /\ [e EXCEPT !.source = LastId] \in cfg
           ELSE \A e2 \in cfg :
                   (e2.target = e.target /\ e2.label = e.label) =>
                       e2 \in (old.cfg \ OldOut) \cup Frag.cfg
    /\ (\A e \in OldOut : ~_is_fallthrough_edge(e)) =>
           \A e2 \in out_edges(cfg, LastId) : ~_is_fallthrough_edge(e2)

\* C10 as stated: after a replacement of the last bytes of the block,
\* block.size is offset, the last fragment block is not extended, the edges of
\* the block that are not fall-through edges are gone and not re-created, its
\* fall-through edges leave the last fragment block, and the last fragment
\* block falls through nowhere when the block did not.
Orig_C10 == (Returned /\ ReplacesLast) => ReplacedLastEdges

\* C10 amended: the same, for offset >= 1 and a fragment whose last block is
\* not empty.
Thm_C10 ==
    (Returned /\ ReplacesLast /\ args.offset >= 1 /\ Last(Frag.blocks).size >= 1)
        => ReplacedLastEdges

\* C10 witness: a replacement of the last bytes, at offset >= 1, of a block
\* with a branch edge and a fall-through edge returned
Wit_C10 ==
    /\ Returned
    /\ ReplacesLast
    /\ args.offset >= 1
    /\ Last(Frag.blocks).size >= 1
    /\ Edge(Block, "X", Branch) \in OldOut
    /\ \E e \in OldOut : _is_fallthrough_edge(e)

\* the last fragment block is empty after the tail of the block was added to
\* it: it was empty in the fragment and no byte of the block follows the
\* replaced range
LastEmptyAfterTail ==
    /\ Last(Frag.blocks).size = 0
    /\ OldBlock.size - args.offset - args.replacement_length = 0

\* a symbol of the fragment refers to the last fragment block, or an edge of
\* the fragment enters it
LastReferenced ==
    \/ \E n \in DOMAIN Frag.symbols : Frag.symbols[n] = LastId
    \/ in_edges(Frag.cfg, LastId) # {}

\* the fall-through edges of the block, which the splice moves to the last
\* fragment block
OldFallthroughs == {e \in OldOut : _is_fallthrough_edge(e)}

\* the block that stands for a fragment block n in the module after the
\* splice, when the last fragment block was replaced by t: the target block
\* for the first fragment block of a splice at offset 0, t for the last
\* fragment block
Absorber(n, t) ==
    IF n = LastId THEN t
    ELSE IF n = FirstId /\ args.offset = 0 THEN Block
    ELSE n

\* the last fragment block is in no place of the module
LastGone ==
    /\ LastId \notin DOMAIN bi_blocks
    /\ \A e \in cfg : e.source # LastId /\ e.target # LastId
    /\ \A n \in DOMAIN symbols : symbols[n] # LastId

Wit_C11_raise ==
    /\ pc = "NotImplementedError"
    /\ LastEmptyAfterTail
    /\ LastReferenced
    /\ Cardinality(OldFallthroughs) = 2

\* C11 witness (a): an unreferenced empty last fragment block was dropped
\* together with the fall-through edges moved to it
Wit_C11_drop ==
    /\ Returned
    /\ LastEmptyAfterTail
    /\ ~LastReferenced
    /\ OldFallthroughs # {}

\* the edges of the module that entered or left the block before the call
OldEdgesOfBlock == {e \in old.cfg : e.source = Block \/ e.target = Block}

\* the blocks that may stand in place of the block in the image of an edge:
\* the block, the last fragment block, and the target of the block's only
\* fall-through edge when it took the place of an empty last fragment block
InPlaceOfBlock ==
    {Block, LastId} \cup
    (IF LastEmptyAfterTail /\ LastReferenced /\ Cardinality(OldFallthroughs) = 1
     THEN {e.target : e \in OldFallthroughs} ELSE {})

\* the edge e of the block has an image after the call: an edge with the
\* label and the other endpoint of e between blocks of the module (the
\* blocks of the byte interval and the block "X" outside it)
HasImage(e) ==
    IF e.target = Block /\ e.source # Block THEN e \in cfg
    ELSE \E e2 \in cfg :
            /\ e2.label = e.label
            /\ e2.target = e.target
            /\ e2.source \in InPlaceOfBlock
            /\ e2.source \in DOMAIN bi_blocks \cup {"X"}

\* C12 as stated: after a successful splice every edge that entered or left
\* the block has an image with the same label and the same other endpoint,
\* leaving the block, the last fragment block or the block that absorbed a
\* folded fragment block; incoming edges still enter the block.
Orig_C12 == Returned => \A e \in OldEdgesOfBlock : HasImage(e)

\* the outgoing edges of the block that the splice removes: the edges that
\* are not fall-through edges when the last bytes of the block are replaced,
\* and the fall-through edges moved to an empty last fragment block that
\* nothing refers to
RemovedBySplice(e) ==
    /\ e.source = Block
    /\ \/ ReplacesLast /\ ~_is_fallthrough_edge(e)
       \/ LastEmptyAfterTail /\ ~LastReferenced /\ _is_fallthrough_edge(e)

\* C12 amended: the same, except for the edges of the block that are not
\* fall-through edges when the splice replaces the last bytes of the block,
\* and for its fall-through edges when the last fragment block is empty and
\* unreferenced; these are not moved to the last fragment block.
Thm_C12 ==
    Returned =>
        \A e \in OldEdgesOfBlock :
            IF RemovedBySplice(e)
            THEN [e EXCEPT !.source = LastId] \notin cfg
            ELSE HasImage(e)

\* C12 witness: an insertion strictly inside a block that has an incoming
\* edge, a fall-through edge and a branch edge moved the outgoing edges to
\* the last fragment block
Wit_C12 ==
    /\ Returned
    /\ InteriorInsertion
    /\ ~TrivialArgs
    /\ in_edges(old.cfg, Block) # {}
    /\ \E e \in OldOut : _is_fallthrough_edge(e)
    /\ \E e \in OldOut : ~_is_fallthrough_edge(e)
    /\ \A e \in OldOut : [e EXCEPT !.source = LastId] \in cfg

\* C12 witness: a fall-through edge of the block has its image leaving the
\* block that took the place of an empty last fragment block
Wit_C12_absorbed ==
    /\ Returned
    /\ LastEmptyAfterTail
    /\ LastReferenced
    /\ \E e \in OldFallthroughs : Edge(e.target, e.target, Fallthrough) \in cfg

\* the fragment blocks that the splice folds away or drops: all of them in
\* the trivial case; otherwise the first one when offset = 0 and the last one
\* when it is empty after the tail of the block was added to it
Dropped ==
    IF TrivialArgs THEN FragIds
    ELSE (IF args.offset = 0 THEN {FirstId} ELSE {})
         \cup (IF LastEmptyAfterTail THEN {LastId} ELSE {})

\* the block a symbol of the fragment that referred to n refers to after the
\* splice
AbsorberOf(n) ==
    IF n = LastId /\ LastEmptyAfterTail
    THEN (CHOOSE e \in OldFallthroughs : TRUE).target
    ELSE IF n = FirstId /\ args.offset = 0 THEN Block
    ELSE n

\* C13: after a successful splice every fragment block that was folded away
\* or dropped is absent from the byte interval (and every other fragment
\* block is in it), is neither source nor target of an edge of the module and
\* is the referent of no symbol of the module; every symbol that referred to
\* a folded block refers to the block that absorbed it, and every symbol that
\* referred to a block of the module before still refers to that block.
Thm_C13 ==
    Returned =>
        /\ FragIds \cap DOMAIN bi_blocks = FragIds \ Dropped
        /\ \A d \in Dropped :
            /\ \A e \in cfg : e.source # d /\ e.target # d
            /\ \A n \in DOMAIN symbols : symbols[n] # d
        /\ \A n \in DOMAIN Frag.symbols :
            /\ n \in DOMAIN symbols
            /\ symbols[n] = AbsorberOf(Frag.symbols[n])
        /\ \A n \in DOMAIN old.symbols :
            n \in DOMAIN symbols /\ symbols[n] = old.symbols[n]

\* C13 witness: a splice at offset 0 of a fragment whose first block a symbol
\* refers to and whose last block is empty and entered by an edge returned:
\* both fragment blocks were folded away
Wit_C13 ==
    /\ Returned
    /\ args.offset = 0
    /\ \E n \in DOMAIN Frag.symbols : Frag.symbols[n] = FirstId
    /\ LastEmptyAfterTail
    /\ in_edges(Frag.cfg, LastId) # {}
    /\ Dropped = FragIds

\* C13 witness: a symbol that referred to the empty last fragment block refers
\* to the block the target block fell through to
Wit_C13_last ==
    /\ Returned
    /\ LastEmptyAfterTail
    /\ \E n \in DOMAIN Frag.symbols :
           Frag.symbols[n] = LastId /\ symbols[n] \in {"C", "X"}

\* the edges with equal source and target
SelfLoops(g) == {e \in g : e.source = e.target}

\* C19: for a fragment whose CFG has no edge with equal source and target, a
\* successful splice adds no edge whose source and target are the same block:
\* no fall-through edge T -> T when T took the place of an empty last fragment
\* block, and no fall-through edge block -> block when the first fragment
\* block was folded into the block.
Orig_C19 ==
    (Returned /\ SelfLoops(Frag.cfg) = {}) => SelfLoops(cfg) \subseteq old.cfg

\* the displacements stored for elem, and the value at one of them
Stored(data, elem) == IF elem \in DOMAIN data THEN DOMAIN data[elem] ELSE {}

\* an assignment mapping[elem] = disp_map has returned
ElementAssigned == pc = "returned" /\ args.op = "setitem_element"

\* the entries of the other elements are unchanged
OthersUnchanged ==
    \A e \in (DOMAIN old \cup DOMAIN mapping) \ {args.elem} :
        e \in DOMAIN old /\ e \in DOMAIN mapping /\ mapping[e] = old[e]

\* C17 as stated: after mapping[elem] = disp_map the displacements stored for
\* elem are exactly the keys of disp_map with their values, the entries of the
\* other elements are unchanged, and the size is the old size minus the size
\* of the old submap plus the size of disp_map.
Orig_C17 ==
    ElementAssigned =>
        /\ mapping[args.elem] = args.value
        /\ OthersUnchanged
        /\ OffsetMapping_len(mapping) =
               OffsetMapping_len(old) - Cardinality(Stored(old, args.elem))
                   + Cardinality(DOMAIN args.value)

\* C17 amended: after mapping[elem] = disp_map the displacements stored for
\* elem are the displacements stored before together with the keys of
\* disp_map; those of disp_map have its values, the others keep theirs; the
\* entries of the other elements are unchanged; and the size is the old size
\* plus the number of keys of disp_map that were not stored for elem.
Thm_C17 ==
    ElementAssigned =>
        /\ DOMAIN mapping[args.elem] =
               Stored(old, args.elem) \cup DOMAIN args.value
        /\ \A d \in DOMAIN args.value : mapping[args.elem][d] = args.value[d]
        /\ \A d \in Stored(old, args.elem) \ DOMAIN args.value :
               mapping[args.elem][d] = old[args.elem][d]
        /\ OthersUnchanged
        /\ OffsetMapping_len(mapping) =
               OffsetMapping_len(old)
                   + Cardinality(DOMAIN args.value \ Stored(old, args.elem))

\* C17 witness: a displacement map was assigned to an element that had a
\* displacement stored that is not in the map, and one that is
Wit_C17 ==
    /\ ElementAssigned
    /\ Stored(old, args.elem) \ DOMAIN args.value # {}
    /\ Stored(old, args.elem) \cap DOMAIN args.value # {}
    /\ DOMAIN old \ {args.elem} # {}

\* what the pass under way, or the last one, did: work.log, the stubs made
\* and the calls of _invoke_patch
Log == work.log
Done == pc = "done"

\* stubs come first, then the patches of the function insertions, then the
\* ordinary insertions
KindRank(entry) ==
    IF entry.kind = "stub" THEN 1 ELSE IF entry.kind = "function" THEN 2 ELSE 3

\* the address of a block of the module before the pass
AddressBefore(b) == ApplyModule.bi_blocks[b].offset

\* (function uuid, block address, resolved offset, registration order) of the
\* entry a is lexicographically before that of the entry b
InsertionBefore(a, b) ==
    \/ a.function < b.function
    \/ /\ a.function = b.function
       /\ \/ AddressBefore(a.block) < AddressBefore(b.block)
          \/ /\ a.block = b.block
             /\ \/ a.offset < b.offset
                \/ a.offset = b.offset /\ a.patch < b.patch

\* the (function, block, insertion) the pass has to visit: the functions of
\* the context, their blocks, and the insertions whose scope matches both
ToVisit ==
    {x \in (1..2) \X {"B", "C"} \X (1..Len(ctx._insertions)) :
        /\ \E f \in Range(ctx._functions) : f.uuid = x[1] /\ x[2] \in f.blocks
        /\ x[1] \in ctx._insertions[x[3]].scope.functions
        /\ x[2] \in ctx._insertions[x[3]].scope.blocks}

LogOf(kind) == {i \in 1..Len(Log) : Log[i].kind = kind}

\* C14: at every point of apply(), all stubs were made before any function
\* patch was invoked and all function patches before any ordinary insertion;
\* the function patches were invoked in registration order and the ordinary
\* insertions in lexicographic order of (function uuid, block address,
\* resolved offset, registration order); and when apply() has returned, every
\* function insertion got its stub and its patch once, and the ordinary
\* insertions invoked are exactly, once each, those that match a block that
\* belonged to a function of the context before the pass.
Thm_C14 ==
    /\ \A i, j \in 1..Len(Log) :
        i < j =>
            /\ KindRank(Log[i]) <= KindRank(Log[j])
            /\ (Log[i].kind = "function" /\ Log[j].kind = "function") =>
                   Log[i].patch < Log[j].patch
            /\ (Log[i].kind = "insertion" /\ Log[j].kind = "insertion") =>
                   InsertionBefore(Log[i], Log[j])
    /\ Done =>
        /\ \A k \in 1..Len(ctx._function_insertions) :
            /\ Cardinality({i \in LogOf("stub") :
                   Log[i].block = ctx._function_insertions[k].block}) = 1
            /\ Cardinality({i \in LogOf("function") : Log[i].patch = k}) = 1
        /\ Cardinality(LogOf("stub")) = Len(ctx._function_insertions)
        /\ Cardinality(LogOf("function")) = Len(ctx._function_insertions)
        /\ {<<Log[i].function, Log[i].block, Log[i].patch>> : i \in LogOf("insertion")}
               = ToVisit
        /\ Cardinality(LogOf("insertion")) = Cardinality(ToVisit)

\* C14 witness: apply() returned after two function insertions and after
\* ordinary insertions into the blocks of two functions, two of them at the
\* same offset of the same block, and a splice had added a block to the
\* byte interval
Wit_C14 ==
    /\ Done
    /\ Cardinality(LogOf("function")) = 2
    /\ \E i, j \in LogOf("insertion") : Log[i].function # Log[j].function
    /\ \E i, j \in LogOf("insertion") :
           i < j /\ Log[i].block = Log[j].block /\ Log[i].offset = Log[j].offset
    /\ DOMAIN bi_blocks # {"B", "C"}

\* the pass failed in the check of _apply_insertions for overlapping edits
OverlappingEdits == pc = "AssertionError: Insertions and replacements overlap"

\* the insertions that match the block b of the function f, by registration
InsertionsOf(f, b) == {x[3] : x \in {y \in ToVisit : y[1] = f /\ y[2] = b}}

\* of the insertions of a block, sorted by ascending offset (ties by
\* registration), one starts before the end of the range an earlier one
\* replaces
OverlapsAt(f, b) ==
    \E i, j \in InsertionsOf(f, b) :
        LET si == ctx._insertions[i].scope
            sj == ctx._insertions[j].scope
        IN  /\ si.offset < sj.offset \/ (si.offset = sj.offset /\ i < j)
            /\ sj.offset < si.offset + si.replacement_length

\* the functions and blocks the pass is through with: those of the functions
\* no longer in work.todo
Visited ==
    IF work.stage # "functions" THEN {}
    ELSE {x \in (1..2) \X {"B", "C"} :
             /\ \E f \in Range(ctx._functions) : f.uuid = x[1] /\ x[2] \in f.blocks
             /\ \A f \in Range(work.todo) : f.uuid # x[1]}

\* C15: the pass fails with OverlappingEdits (the assertion "Insertions and
\* replacements overlap") exactly when, in a block it came to, an insertion
\* starts before the end of the range replaced by the insertion before it in
\* ascending order of offset; and then no patch of that block was invoked,
\* no patch id was handed out for it and the module - the block, its byte
\* interval, the CFG - is as it was before the insertions of that block.
Thm_C15 ==
    /\ OverlappingEdits =>
        \E x \in Visited :
            /\ OverlapsAt(x[1], x[2])
            /\ \A i \in LogOf("insertion") :
                   ~(Log[i].function = x[1] /\ Log[i].block = x[2])
            /\ Module = old
    /\ (\E x \in Visited : OverlapsAt(x[1], x[2])) => OverlappingEdits

\* C15 witness: the pass failed with OverlappingEdits in a block with an
\* insertion that replaces bytes and a later one that starts inside them
Wit_C15 ==
    /\ OverlappingEdits
    /\ \E i, j \in 1..Len(ctx._insertions) :
           /\ ctx._insertions[i].scope.offset < ctx._insertions[j].scope.offset
           /\ ctx._insertions[j].scope.offset <
                  ctx._insertions[i].scope.offset
                      + ctx._insertions[i].scope.replacement_length

\* C15 witness: the pass failed with OverlappingEdits in the block of the
\* second function after it had spliced into the block of the first
Wit_C15_later ==
    /\ OverlappingEdits
    /\ LogOf("insertion") # {}

\* C15 witness: edits that touch (one starts where the other ends) do not
\* overlap and the pass returned
Wit_C15_touching ==
    /\ Done
    /\ \E i, j \in 1..Len(ctx._insertions) :
           /\ ctx._insertions[i].scope.replacement_length > 0
           /\ ctx._insertions[j].scope.blocks = ctx._insertions[i].scope.blocks
           /\ ctx._insertions[j].scope.offset =
                  ctx._insertions[i].scope.offset
                      + ctx._insertions[i].scope.replacement_length

\* the insertions whose patch does not return empty assembly
NonEmptyInsertions ==
    LET nonempty(insertion) == insertion.patch.asm.bytes # <<>>
    IN  Filter(ctx._insertions, nonempty)

\* the first pass over the function that is "B" alone is through with it
OneBlockPassed ==
    /\ ctx._functions = OneBlockFunctions
    /\ work.applies = 1
    /\ work.stage = "functions"
    /\ work.todo = <<>>

\* the same pass, had the insertions with empty assembly not been registered
WithoutEmpty ==
    apply_function([m |-> ApplyModule, text_section |-> EmptyDict,
                    function_tables |-> function_tables,
                    functions_by_block |-> EmptyDict, patch_id |-> 0,
                    log |-> <<>>, pc |-> "running"],
                   NonEmptyInsertions, ctx._functions[1])

\* the pass left the module, the patch ids and its outcome as the pass
\* without the empty insertions leaves them
SameAsWithoutEmpty ==
    /\ Module = WithoutEmpty.m
    /\ ctx._patch_id = WithoutEmpty.patch_id
    /\ IF pc = "done" THEN WithoutEmpty.pc = "running" ELSE pc = WithoutEmpty.pc

\* C20 as stated: an insertion whose patch returns empty assembly is a no-op
\* for the pass, whatever its replacement_length: the module, the patch ids
\* and the places where the other insertions are spliced are those of the
\* pass without it.
Orig_C20 == OneBlockPassed => SameAsWithoutEmpty

\* what holds of C20: in a pass that does not fail with OverlappingEdits the
\* empty insertions that replace nothing are no-ops
Holds_C20 ==
    (/\ OneBlockPassed
     /\ ~OverlappingEdits
     /\ \A i \in 1..Len(ctx._insertions) :
            ctx._insertions[i].patch.asm.bytes = <<>> =>
                ctx._insertions[i].scope.replacement_length = 0)
        => SameAsWithoutEmpty

\* what holds of C20: the call of _invoke_patch for an empty insertion hands
\* out no patch id, and a pass of empty insertions only that does not fail
\* leaves the module as it was
EmptyOnly_C20 ==
    /\ work.applies = 1 =>
           \A i \in LogOf("insertion") :
               Log[i].bytes = <<>> =>
                   Log[i].patch_id = Cardinality({j \in 1..(i - 1) : Log[j].bytes # <<>>})
    /\ (OneBlockPassed /\ NonEmptyInsertions = <<>> /\ ~OverlappingEdits) =>
           Module = ApplyModule /\ ctx._patch_id = 0

\* the failing input of C20: an empty insertion that replaces the first
\* BlockSize - 1 bytes, then a non-empty insertion at the end of the block
FailingInput_C20 ==
    /\ OneBlockPassed
    /\ Len(ctx._insertions) = 2
    /\ ctx._insertions[1].patch.asm.bytes = <<>>
    /\ ctx._insertions[1].scope.offset = 0
    /\ ctx._insertions[1].scope.replacement_length = BlockSize - 1
    /\ ctx._insertions[2].patch.asm.bytes # <<>>
    /\ ctx._insertions[2].scope.offset = BlockSize
    /\ ctx._insertions[2].scope.replacement_length = 0
    /\ Len(ctx._insertions[2].patch.asm.bytes) = 1

\* the edits of the pass over the function that is "B" alone: the registered
\* insertions whose patch has bytes, by registration
Edits == {i \in 1..Len(ctx._insertions) : ctx._insertions[i].patch.asm.bytes # <<>>}

RECURSIVE PatchBytesAt(_, _)
\* the bytes of the edits at offset p of the block, in the order of their
\* registration, from the i-th registered insertion on
PatchBytesAt(p, i) ==
    IF i > Len(ctx._insertions) THEN <<>>
    ELSE (IF i \in Edits /\ ctx._insertions[i].scope.offset = p
          THEN ctx._insertions[i].patch.asm.bytes ELSE <<>>)
             \o PatchBytesAt(p, i + 1)

\* the byte at offset p of the block is replaced by an edit
ReplacedAt(p) ==
    \E i \in Edits :
        /\ ctx._insertions[i].scope.offset <= p
        /\ p < ctx._insertions[i].scope.offset + ctx._insertions[i].scope.replacement_length

RECURSIVE EditedFrom(_)
\* the original bytes of block "B" from its offset p on and of the rest of
\* the byte interval, with every edit applied at its original offset
EditedFrom(p) ==
    LET at == ApplyModule.bi_blocks["B"].offset + p
    IN  IF p > BlockSize
        THEN SubSeq(ApplyModule.bi_contents, at, BiSize)
        ELSE PatchBytesAt(p, 1)
                 \o (IF p < BlockSize /\ ~ReplacedAt(p)
                     THEN <<ApplyModule.bi_contents[at + 1]>> ELSE <<>>)
                 \o EditedFrom(p + 1)

\* the contents the claim C16 expects
EditedContents ==
    SubSeq(ApplyModule.bi_contents, 1, ApplyModule.bi_blocks["B"].offset)
        \o EditedFrom(0)

\* every splice of an insertion in the first pass was invoked at an offset of
\* the block it was invoked on that lies in [0, size - replacement_length]
OffsetsInRange ==
    work.applies = 1 =>
    \A i \in LogOf("insertion") :
        /\ 0 <= Log[i].at
        /\ Log[i].at <= Log[i].size - Log[i].replacement_length

\* C16 as stated: every insertion of a sorted, non-overlapping sequence is
\* spliced into actual_block at offset_k + total_insert_len - block_delta,
\* which lies in [0, actual_block.size - replacement_length_k] and is the
\* byte offset_k was in the original block, so that after the insertions of
\* the block the contents of the byte interval are the original contents
\* with every edit applied at its original offset.
Orig_C16 ==
    /\ OffsetsInRange
    /\ (OneBlockPassed /\ ~OverlappingEdits) =>
           /\ pc \in {"running", "done"}
           /\ bi_contents = EditedContents
           /\ bi_size = Len(EditedContents)

\* no insertion with empty assembly replaces bytes: the case of C20 is set
\* aside
NoEmptyReplacement ==
    \A i \in 1..Len(ctx._insertions) :
        ctx._insertions[i].patch.asm.bytes = <<>> =>
            ctx._insertions[i].scope.replacement_length = 0

\* what holds of C16: the claim, in the passes where no insertion with empty
\* assembly replaces bytes
Holds_C16 == NoEmptyReplacement => Orig_C16

\* the case of C16 in which it holds: the pass spliced two patches into the
\* block, the second into the block that ended the first and not into the
\* original block, at another offset than the one registered
Tracked_C16 ==
    /\ OneBlockPassed
    /\ NoEmptyReplacement
    /\ pc = "done"
    /\ \E i \in LogOf("insertion") :
           /\ Log[i].target # Log[i].block
           /\ Log[i].at # Log[i].offset
           /\ Log[i].replacement_length > 0

\* the uuids under which the function tables record a function named sym
UuidsOf(sym) ==
    {u \in DOMAIN function_tables.functionNames : function_tables.functionNames[u] = sym}

\* the uuids of the functions the module had before the pass
OldUuids == {ctx._functions[i].uuid : i \in 1..Len(ctx._functions)}

\* the function insertion fi left its symbol on its block, the block with
\* size >= 1 at offset 0 of its own byte interval of the text section, and
\* the function in the three tables under one uuid no function had before
FunctionInserted(fi) ==
    /\ symbols[fi.symbol] = fi.block
    /\ fi.block \in DOMAIN text_section
    /\ fi.block \in DOMAIN text_section[fi.block].bi_blocks
    /\ text_section[fi.block].bi_blocks[fi.block].offset = 0
    /\ text_section[fi.block].bi_blocks[fi.block].size >= 1
    /\ Cardinality(UuidsOf(fi.symbol)) = 1
    /\ \A u \in UuidsOf(fi.symbol) :
           /\ u \notin OldUuids
           /\ fi.block \in function_tables.functionEntries[u]
           /\ fi.block \in function_tables.functionBlocks[u]

\* C18 as stated: after apply() every function insertion has left its symbol
\* on its block, the block with size >= 1 at offset 0 of a fresh byte
\* interval of the text section whose contents are exactly the bytes of the
\* assembled patch, and the function in functionEntries, functionBlocks and
\* functionNames under one fresh uuid.
Orig_C18 ==
    Done =>
        \A i \in 1..Len(ctx._function_insertions) :
            LET fi == ctx._function_insertions[i]
            IN  /\ FunctionInserted(fi)
                /\ text_section[fi.block].bi_contents = fi.patch.asm.bytes

\* C18 amended: the same, with the contents being the bytes of the assembled
\* patch when the patch assembles to at least one byte; when it assembles to
\* nothing the splice is skipped and the contents are the stub's no-op.
Thm_C18 ==
    Done =>
        \A i \in 1..Len(ctx._function_insertions) :
            LET fi == ctx._function_insertions[i]
            IN  /\ FunctionInserted(fi)
                /\ text_section[fi.block].bi_contents =
                       IF fi.patch.asm.bytes = <<>> THEN nop_encoding
                       ELSE fi.patch.asm.bytes
                /\ text_section[fi.block].bi_size =
                       Len(text_section[fi.block].bi_contents)

\* C18 witness: apply() returned after two function insertions, one with a
\* patch of two blocks and one with empty assembly
Wit_C18 ==
    /\ Done
    /\ \E i, j \in 1..Len(ctx._function_insertions) :
           /\ Len(ctx._function_insertions[i].patch.asm.blocks) = 2
           /\ ctx._function_insertions[j].patch.asm.bytes = <<>>

\* a second apply() on the context is under way or has ended
SecondApply == work.applies = 2

\* the splices of the pass: its calls of _invoke_patch with a patch that has
\* bytes
Splices == {i \in 1..Len(Log) : Log[i].kind # "stub" /\ Log[i].bytes # <<>>}

\* C21 as stated: when apply() has returned the pending insertions and the
\* pending function insertions are empty, and a second apply() on the same
\* context without new registrations splices nothing, makes no function
\* stub, raises no error and leaves the byte intervals, the blocks and the
\* edges of the module as they were, so that every registered insertion is
\* applied once.
Orig_C21 ==
    /\ Done => ctx._insertions = <<>> /\ ctx._function_insertions = <<>>
    /\ SecondApply =>
           /\ pc \in {"running", "done"}
           /\ Splices = {}
           /\ LogOf("stub") = {}
           /\ Module = old

\* what holds of C21: a second apply() does nothing when nothing with bytes
\* is pending, that is with no function insertion and no insertion whose
\* patch has assembly
Holds_C21 ==
    (SecondApply /\ ctx._function_insertions = <<>> /\ NonEmptyInsertions = <<>>) =>
        /\ pc \in {"running", "done"}
        /\ Splices = {}
        /\ Module = old
        /\ ctx._patch_id = 0

\* what the code does, C21: apply() leaves the pending lists as they were,
\* and the second apply() invokes the patch of every insertion the first one
\* invoked, in the same order, unless it fails on the way
StillPending_C21 ==
    /\ Len(ctx._insertions) <= MaxInsertions
    /\ (pc # "idle" /\ ctx._functions = OneBlockFunctions /\ work.applies >= 1) =>
           \A i \in LogOf("insertion") :
               \E k \in 1..Len(ctx._insertions) :
                   /\ Log[i].patch = ctx._insertions[k].patch.name
                   /\ Log[i].offset = ctx._insertions[k].scope.offset
    /\ (SecondApply /\ Done) =>
           \A x \in ToVisit : \E i \in LogOf("insertion") :
               Log[i].function = x[1] /\ Log[i].block = x[2]
                   /\ Log[i].patch = ctx._insertions[x[3]].patch.name

\* the failing input of C21: one insertion of one byte at offset 0 of "B",
\* applied by the first apply() and again by the second, which has returned
Reapplied_C21 ==
    /\ SecondApply
    /\ Done
    /\ ctx._functions = OneBlockFunctions
    /\ Len(ctx._insertions) = 1
    /\ ctx._insertions[1].scope.offset = 0
    /\ ctx._insertions[1].scope.replacement_length = 0
    /\ Len(ctx._insertions[1].patch.asm.bytes) = 1
    /\ Splices # {}
    /\ Len(bi_contents) = BiSize + 2

\* the second apply() with a pending function insertion fails in
\* _insert_function_stub, whose block is no longer empty
StubFails_C21 ==
    /\ SecondApply
    /\ ctx._function_insertions # <<>>
    /\ pc = "AssertionError"
    /\ work.stage = "function_insertions"
    /\ Log = <<>>

====
